---- MODULE Spec2Model ----
(***************************************************************************)
(* Fractured Crowns -- the authoritative match engine (Match, MapGenerator, *)
(* SpatialHash) as a state machine.                                         *)
(*                                                                          *)
(* Numbers: the engine computes in floating point.  Here every fractional   *)
(* quantity (hit points, gold, capture progress, squad coordinates, delta   *)
(* time) is a fixed-point integer in thousandths (SCALE), and a division    *)
(* rounds down to the next thousandth.  Tile coordinates are integers.      *)
(*                                                                          *)
(* The map is the program's 120 x 120 grid.  Its terrain is one fixed       *)
(* layout (Terrain); the mutable part of a tile is kept only for the tiles  *)
(* that differ from the freshly generated tile (DefaultTile).               *)
(***************************************************************************)
EXTENDS Integers, Sequences, FiniteSets, TLC

\* ------------------------------------------------------------------ bounds

\* Largest roster the model builds (the program allows MAX_PLAYERS).
MaxPlayers == 2
\* runTick is not taken once the tick counter has reached this value.
MaxTicks == 3
\* Inputs from outside in one run: commands of clients, commands of bots,
\* disconnections.
MaxInputs == 2

\* ------------------------------------------------------- program constants

SCALE == 1000

MAX_PLAYERS == 20
MAP_WIDTH == 120
MAP_HEIGHT == 120
MIN_SPAWN_DISTANCE == 20
CAPTURE_RATE == 8
CAPTURE_THRESHOLD == 100
SUPPLY_CHECK_INTERVAL == 5
TICK_RATE == 15
FOG_OF_WAR_RADIUS == 8
SPATIAL_HASH_CELL_SIZE == 8
STARTING_GOLD == 300
BASE_MINE_INCOME == 10
MINE_UPGRADE_BONUS == 5
\* PASSIVE_TERRITORY_INCOME 0.2 gold per tile per second, in thousandths
PASSIVE_TERRITORY_INCOME == 200
EXPANSION_PENALTY_DIVISOR == 50
\* clampedDt = Math.min(dt, 0.2), in milliseconds
MAX_DT == 200
MAX_QUEUE == 5
MAX_SQUAD_SIZE == 20
TOWER_DAMAGE == 15
TOWER_RANGE == 3
\* TOWER_STATS.fireRate 1.0 shots per second
TOWER_FIRE_RATE == 1
MOVE_PATH_STEPS == 800
RALLY_PATH_STEPS == 500

NoOne == "none"
NoStructure == "none"

Min2(a, b) == IF a < b THEN a ELSE b
Max2(a, b) == IF a > b THEN a ELSE b
Abs(a) == IF a < 0 THEN -a ELSE a

\* Math.round on a value in thousandths: half rounds up.
Round(v) == (v + 500) \div SCALE

clamp(value, lo, hi) == Max2(lo, Min2(hi, value))

distanceSq(x1, y1, x2, y2) == (x1 - x2) * (x1 - x2) + (y1 - y2) * (y1 - y2)

\* floor(sqrt(n)) by bisection
RECURSIVE ISqrtIn(_, _, _)
ISqrtIn(n, lo, hi) ==
  IF lo >= hi THEN lo
  ELSE LET mid == (lo + hi + 1) \div 2
       IN IF mid * mid <= n THEN ISqrtIn(n, mid, hi) ELSE ISqrtIn(n, lo, mid - 1)

ISqrt(n) == ISqrtIn(n, 0, 46340)

\* a Map of the program: a function on its keys
EmptyMap == [ k \in {} |-> 0 ]

\* A function, a sequence and a set written out in full: the same value, kept
\* as a table of its elements.
Table(f) == f @@ EmptyMap
Listed(s) == s \o << >>
Members(S) == DOMAIN Table([ x \in S |-> TRUE ])

\* map with key k bound to v / without key k
MapPut(m, k, v) == (k :> v) @@ m
MapDel(m, k) == Table([ j \in DOMAIN m \ {k} |-> m[j] ])

\* ---------------------------------------------------------------- units

UnitTypes == {"militia", "soldier", "knight", "archer", "siege_ram"}

UNIT_STATS ==
  [ militia   |-> [maxHp |-> 40,  damage |-> 5,  speed |-> 2500, cost |-> 20,  range |-> 1, trainTime |-> 3],
    soldier   |-> [maxHp |-> 70,  damage |-> 10, speed |-> 2000, cost |-> 50,  range |-> 1, trainTime |-> 5],
    knight    |-> [maxHp |-> 120, damage |-> 18, speed |-> 3000, cost |-> 120, range |-> 1, trainTime |-> 8],
    archer    |-> [maxHp |-> 35,  damage |-> 12, speed |-> 2000, cost |-> 60,  range |-> 4, trainTime |-> 5],
    siege_ram |-> [maxHp |-> 200, damage |-> 40, speed |-> 1000, cost |-> 200, range |-> 1, trainTime |-> 12] ]

StructureTypes == {"castle", "barracks", "wall", "tower", "mine_upgrade", "road"}

BUILDING_COSTS ==
  [ castle |-> 0, barracks |-> 150, wall |-> 40, tower |-> 100, mine_upgrade |-> 200, road |-> 15 ]

BUILDING_HP ==
  [ castle |-> 500, barracks |-> 200, wall |-> 300, tower |-> 150, mine_upgrade |-> 100, road |-> 30 ]

\* ------------------------------------------------------------------ map

\* Two generated maps (the generator is seeded from the clock).  In both the
\* border band of depth <= 2 is mountain (generate).  "open" is plains with a
\* few features; "barren" is water but for one patch of plains around a mine,
\* which leaves a single spawn site.
MapKinds == {"open", "barren"}

MineTiles(kind) ==
  IF kind = "open" THEN { <<16, 15>>, <<40, 15>>, <<16, 39>>, <<62, 60>> }
  ELSE { <<16, 15>> }
MountainTiles == { <<61, 61>>, <<59, 58>>, <<15, 19>> }
ForestTiles == { <<58, 60>>, <<14, 17>>, <<63, 64>> }
WaterTiles == { <<60, 62>>, <<17, 18>> }

InMap(x, y) == x >= 0 /\ y >= 0 /\ x < MAP_WIDTH /\ y < MAP_HEIGHT

Terrain(kind, x, y) ==
  IF kind = "meadow" THEN "plains"
  ELSE IF Min2(Min2(x, y), Min2(MAP_WIDTH - 1 - x, MAP_HEIGHT - 1 - y)) <= 2 THEN "mountain"
  ELSE IF <<x, y>> \in MineTiles(kind) THEN "mine"
  ELSE IF kind = "barren"
       THEN IF x >= 12 /\ x <= 18 /\ y >= 12 /\ y <= 18 THEN "plains" ELSE "water"
  ELSE IF <<x, y>> \in MountainTiles THEN "mountain"
  ELSE IF <<x, y>> \in ForestTiles THEN "forest"
  ELSE IF <<x, y>> \in WaterTiles THEN "water"
  ELSE "plains"

DefaultTile ==
  [ ownerId |-> NoOne, structureType |-> NoStructure, structureHp |-> 0,
    captureProgress |-> 0, capturingPlayerId |-> NoOne, connected |-> FALSE,
    mineLevel |-> 0 ]

\* this.map.tiles[y][x]
TileAt(tiles, x, y) == IF <<x, y>> \in DOMAIN tiles THEN tiles[<<x, y>>] ELSE DefaultTile

\* tiles with tile (x, y) replaced
SetTile(tiles, x, y, t) ==
  IF t = DefaultTile
  THEN Table([k \in DOMAIN tiles \ {<<x, y>>} |-> tiles[k]])
  ELSE (<<x, y>> :> t) @@ tiles

\* ------------------------------------------------- MapGenerator: spawn sites

\* for (let y = padding; y < map.height - padding; y += 3), padding = 12:
\* the grid positions per axis, and the i-th candidate position in generation
\* order (row by row)
SpawnGridN == (MAP_WIDTH - 12 - 1 - 12) \div 3 + 1
SpawnGridX(i) == 12 + 3 * (i % SpawnGridN)
SpawnGridY(i) == 12 + 3 * (i \div SpawnGridN)

\* plains or forest tiles in the 7 x 7 window around (x, y)
OpenSpace7(kind, x, y) ==
  Cardinality({ d \in (-3..3) \X (-3..3) :
                  /\ InMap(x + d[1], y + d[2])
                  /\ Terrain(kind, x + d[1], y + d[2]) \in {"plains", "forest"} })

NearestMineDist(kind, x, y) ==
  LET ds == { Abs(m[1] - x) + Abs(m[2] - y) : m \in MineTiles(kind) }
  IN  CHOOSE d \in ds : \A e \in ds : d <= e

\* twice the candidate's score: openSpace * 2 - nearestMineDist * 3 + edgeDist * 0.5
SpawnScore2(kind, x, y) ==
  4 * OpenSpace7(kind, x, y) - 6 * NearestMineDist(kind, x, y)
    + Min2(Min2(x, y), Min2(MAP_WIDTH - x, MAP_HEIGHT - y))

IsSpawnCandidate(kind, x, y) ==
  /\ Terrain(kind, x, y) = "plains"
  /\ NearestMineDist(kind, x, y) <= 15
  /\ OpenSpace7(kind, x, y) >= 30

\* the candidates with their scores, as generated
SpawnCandidateSet(kind) ==
  { [x |-> SpawnGridX(i), y |-> SpawnGridY(i),
     score |-> SpawnScore2(kind, SpawnGridX(i), SpawnGridY(i))] :
      i \in { j \in 0..(SpawnGridN * SpawnGridN - 1) :
                IsSpawnCandidate(kind, SpawnGridX(j), SpawnGridY(j)) } }

\* candidates.sort((a, b) => b.score - a.score): descending score, and the
\* sort being stable, generation order (row by row) among equal scores
CandidateBefore(c, d) ==
  \/ c.score > d.score
  \/ c.score = d.score /\ (c.y < d.y \/ (c.y = d.y /\ c.x < d.x))

SortCandidates(S) ==
  LET rank == Table([ c \in S |-> 1 + Cardinality({ d \in S : CandidateBefore(d, c) }) ])
  IN  Listed([ i \in 1..Cardinality(S) |-> CHOOSE c \in S : rank[c] = i ])

\* one greedy pass over the sorted candidates with separation minDistSq
RECURSIVE GreedySpawns(_, _, _, _, _)
GreedySpawns(cands, i, spawns, count, minDistSq) ==
  IF i > Len(cands) \/ Len(spawns) >= count THEN spawns
  ELSE LET c == cands[i]
           valid == \A j \in 1..Len(spawns) :
                      distanceSq(spawns[j][1], spawns[j][2], c.x, c.y) >= minDistSq
       IN  GreedySpawns(cands, i + 1,
                        IF valid THEN Append(spawns, <<c.x, c.y>>) ELSE spawns,
                        count, minDistSq)

\* relaxedMinDist = minDist * 0.6 = 12
SortedCandidates == [ kind \in MapKinds |-> SortCandidates(SpawnCandidateSet(kind)) ]

findSpawnLocations(kind, count) ==
  LET cands == SortedCandidates[kind]
      first == GreedySpawns(cands, 1, << >>, count, MIN_SPAWN_DISTANCE * MIN_SPAWN_DISTANCE)
  IN  IF Len(first) < count
      THEN GreedySpawns(cands, 1, first, count,
                        ((MIN_SPAWN_DISTANCE * 6) \div 10) * ((MIN_SPAWN_DISTANCE * 6) \div 10))
      ELSE first

\* The spawn sites of each map for each roster size the model builds, computed
\* once (the result depends on nothing but the terrain and the count).
SpawnTable ==
  [ kind \in MapKinds |-> [ n \in 0..MaxPlayers |-> findSpawnLocations(kind, n) ] ]

\* non-mountain, non-water tiles in the 5 x 5 window around (x, y)
OpenSpace5(kind, x, y) ==
  Cardinality({ d \in (-2..2) \X (-2..2) :
                  /\ InMap(x + d[1], y + d[2])
                  /\ Terrain(kind, x + d[1], y + d[2]) \notin {"mountain", "water"} })

\* existingSpawns: a set of <<x, y>>
isValidSpawn(kind, x, y, existingSpawns) ==
  /\ ~(x < 5 \/ y < 5 \/ x >= MAP_WIDTH - 5 \/ y >= MAP_HEIGHT - 5)
  /\ Terrain(kind, x, y) \notin {"mountain", "water"}
  /\ \A s \in existingSpawns :
        distanceSq(s[1], s[2], x, y) >= MIN_SPAWN_DISTANCE * MIN_SPAWN_DISTANCE
  /\ OpenSpace5(kind, x, y) >= 18

\* ------------------------------------------------ MapGenerator: pathfinding

\* MinHeap over open-set entries [x, y, f, g], ordered by f.  The array index
\* i of the program is position i + 1 here.
RECURSIVE bubbleUp(_, _)
bubbleUp(data, i) ==
  IF i <= 1 THEN data
  ELSE LET parent == i \div 2
       IN  IF data[i].f < data[parent].f
           THEN bubbleUp([data EXCEPT ![i] = data[parent], ![parent] = data[i]], parent)
           ELSE data

heapPush(data, item) == bubbleUp(Append(data, item), Len(data) + 1)

RECURSIVE sinkDown(_, _)
sinkDown(data, i) ==
  LET length == Len(data)
      left == 2 * i
      right == 2 * i + 1
      s1 == IF left <= length /\ data[left].f < data[i].f THEN left ELSE i
      smallest == IF right <= length /\ data[right].f < data[s1].f THEN right ELSE s1
  IN  IF smallest # i
      THEN sinkDown([data EXCEPT ![i] = data[smallest], ![smallest] = data[i]], smallest)
      ELSE data

\* the heap after pop(); the popped item is data[1]
heapPop(data) ==
  IF Len(data) <= 1 THEN << >>
  ELSE sinkDown([SubSeq(data, 1, Len(data) - 1) EXCEPT ![1] = data[Len(data)]], 1)

\* cost of stepping onto (nx, ny), in thousandths; 0 when the tile is not a
\* passable neighbour
NeighborCost(kind, tiles, nx, ny) ==
  IF ~InMap(nx, ny) \/ Terrain(kind, nx, ny) = "mountain" THEN 0
  ELSE IF TileAt(tiles, nx, ny).structureType = "road" THEN 600
  ELSE IF Terrain(kind, nx, ny) = "water" THEN 2500
  ELSE IF Terrain(kind, nx, ny) = "forest" THEN 1500
  ELSE 1000

\* the body of "for (const neighbor of neighbors)" for the neighbour at
\* offset (dx, dy) of the popped entry cur
Relax(kind, tiles, S, cur, dx, dy, endX, endY) ==
  LET nx == cur.x + dx
      ny == cur.y + dy
      cost == NeighborCost(kind, tiles, nx, ny)
      tentativeG == cur.g + cost
  IN  IF cost = 0 \/ <<nx, ny>> \in S.visited THEN S
      ELSE IF <<nx, ny>> \in DOMAIN S.gScore /\ tentativeG >= S.gScore[<<nx, ny>>] THEN S
      ELSE [S EXCEPT
              !.cameFrom = MapPut(@, <<nx, ny>>, <<cur.x, cur.y>>),
              !.gScore = MapPut(@, <<nx, ny>>, tentativeG),
              !.openSet = heapPush(@, [ x |-> nx, y |-> ny,
                                        f |-> tentativeG + (Abs(endX - nx) + Abs(endY - ny)) * SCALE,
                                        g |-> tentativeG ])]

\* the reconstruction that puts the start tile in front of the path as well
RECURSIVE ReconstructFromStart(_, _, _, _)
ReconstructFromStart(cameFrom, key, startKey, path) ==
  IF key = startKey THEN << key >> \o path
  ELSE ReconstructFromStart(cameFrom, cameFrom[key], startKey, << key >> \o path)

\* path.unshift back from the end along cameFrom
RECURSIVE Reconstruct(_, _, _, _)
Reconstruct(cameFrom, key, startKey, path) ==
  IF key = startKey THEN path
  ELSE Reconstruct(cameFrom, cameFrom[key], startKey, << key >> \o path)

\* one turn of the while loop of findPath
AStarStep(kind, tiles, S, startKey, endX, endY, maxSteps) ==
  IF Len(S.openSet) = 0 \/ S.steps >= maxSteps THEN [S EXCEPT !.done = TRUE]
  ELSE LET cur == S.openSet[1]
           S1 == [S EXCEPT !.steps = @ + 1, !.openSet = heapPop(@)]
       IN  IF <<cur.x, cur.y>> = <<endX, endY>>
           THEN [S1 EXCEPT !.done = TRUE, !.found = TRUE,
                           !.path = Reconstruct(S.cameFrom, <<endX, endY>>, startKey, << >>)]
           ELSE IF <<cur.x, cur.y>> \in S1.visited THEN S1
           ELSE LET S2 == [S1 EXCEPT !.visited = @ \cup {<<cur.x, cur.y>>}]
                    N1 == Relax(kind, tiles, S2, cur, -1, 0, endX, endY)
                    N2 == Relax(kind, tiles, N1, cur, 1, 0, endX, endY)
                    N3 == Relax(kind, tiles, N2, cur, 0, -1, endX, endY)
                IN  Relax(kind, tiles, N3, cur, 0, 1, endX, endY)

\* up to n turns of the loop
RECURSIVE AStarRun(_, _, _, _, _, _, _, _)
AStarRun(kind, tiles, S, startKey, endX, endY, maxSteps, n) ==
  IF S.done \/ n <= 0 THEN S
  ELSE IF n = 1 THEN AStarStep(kind, tiles, S, startKey, endX, endY, maxSteps)
  ELSE LET half == AStarRun(kind, tiles, S, startKey, endX, endY, maxSteps, n \div 2)
       IN  IF half.done THEN half
           ELSE AStarRun(kind, tiles, half, startKey, endX, endY, maxSteps, n - n \div 2)

\* findPath: [found, path, steps]; found = FALSE is the program's null,
\* steps the turns the while loop took
findPath(kind, tiles, startX, startY, endX, endY, maxSteps) ==
  IF startX = endX /\ startY = endY THEN [ found |-> TRUE, path |-> << >>, steps |-> 0 ]
  ELSE IF ~InMap(endX, endY) \/ Terrain(kind, endX, endY) = "mountain"
       THEN [ found |-> FALSE, path |-> << >>, steps |-> 0 ]
  ELSE LET S0 == [ openSet |-> << [ x |-> startX, y |-> startY,
                                    f |-> (Abs(endX - startX) + Abs(endY - startY)) * SCALE,
                                    g |-> 0 ] >>,
                   cameFrom |-> EmptyMap,
                   gScore |-> MapPut(EmptyMap, <<startX, startY>>, 0),
                   visited |-> {},
                   steps |-> 0, done |-> FALSE, found |-> FALSE, path |-> << >> ]
           S == AStarRun(kind, tiles, S0, <<startX, startY>>, endX, endY, maxSteps, maxSteps + 1)
       IN  [ found |-> S.found, path |-> S.path, steps |-> S.steps ]

\* ------------------------------------------------------------ SpatialHash

\* array.findIndex(e => e.id === id), 0 when absent
FindIndexById(cell, id) ==
  IF \E i \in 1..Len(cell) : cell[i].id = id
  THEN CHOOSE i \in 1..Len(cell) :
         cell[i].id = id /\ \A j \in 1..(i - 1) : cell[j].id # id
  ELSE 0

\* getCellKey: Math.floor(x / cellSize) on coordinates in thousandths
getCellKey(x, y) == << x \div (SPATIAL_HASH_CELL_SIZE * SCALE), y \div (SPATIAL_HASH_CELL_SIZE * SCALE) >>

\* removeFromCell that leaves an emptied cell in the map
removeFromCellKeepEmpty(cells, id, cellKey) ==
  IF cellKey \notin DOMAIN cells THEN cells
  ELSE LET cell == cells[cellKey]
           idx == FindIndexById(cell, id)
       IN  MapPut(cells, cellKey,
                  IF idx = 0 THEN cell
                  ELSE SubSeq([cell EXCEPT ![idx] = cell[Len(cell)]], 1, Len(cell) - 1))

\* removeFromCell on the cells map: swap with the last entry, pop, drop an
\* empty cell
removeFromCell(cells, id, cellKey) ==
  IF cellKey \notin DOMAIN cells THEN cells
  ELSE LET cell == cells[cellKey]
           idx == FindIndexById(cell, id)
           popped == IF idx = 0 THEN cell
                     ELSE SubSeq([cell EXCEPT ![idx] = cell[Len(cell)]], 1, Len(cell) - 1)
       IN  IF Len(popped) = 0 THEN MapDel(cells, cellKey)
           ELSE MapPut(cells, cellKey, popped)

\* entityCount
hashEntityCount(H) == Cardinality(DOMAIN H.entityCells)

\* H is the hash: [cells, entityCells]
hashInsertOrUpdate(H, entry) ==
  LET newCellKey == getCellKey(entry.x, entry.y)
      known == entry.id \in DOMAIN H.entityCells
  IN  IF known /\ H.entityCells[entry.id] = newCellKey
      THEN IF newCellKey \in DOMAIN H.cells
           THEN LET cell == H.cells[newCellKey]
                    idx == FindIndexById(cell, entry.id)
                IN  [H EXCEPT !.cells =
                       MapPut(H.cells, newCellKey,
                              IF idx # 0 THEN [cell EXCEPT ![idx] = entry]
                              ELSE Append(cell, entry))]
           ELSE H
      ELSE LET c1 == IF known THEN removeFromCell(H.cells, entry.id, H.entityCells[entry.id])
                     ELSE H.cells
               cell == IF newCellKey \in DOMAIN c1 THEN c1[newCellKey] ELSE << >>
           IN  [ cells |-> MapPut(c1, newCellKey, Append(cell, entry)),
                 entityCells |-> MapPut(H.entityCells, entry.id, newCellKey) ]

hashRemove(H, id) ==
  IF id \in DOMAIN H.entityCells
  THEN [ cells |-> removeFromCell(H.cells, id, H.entityCells[id]),
         entityCells |-> MapDel(H.entityCells, id) ]
  ELSE H

\* entries of the cells minCx..maxCx x minCy..maxCy, row by row, that lie
\* within radius (thousandths) of (x, y)
RECURSIVE CollectCells(_, _, _, _, _, _, _, _)
CollectCells(cells, x, y, radius, minCx, nCx, i, n) ==
  IF i > n THEN << >>
  ELSE LET key == << minCx[1] + ((i - 1) % nCx), minCx[2] + ((i - 1) \div nCx) >>
           inCell == IF key \in DOMAIN cells
                     THEN SelectSeq(cells[key],
                            LAMBDA e : /\ Abs(e.x - x) <= radius
                                       /\ Abs(e.y - y) <= radius
                                       /\ distanceSq(e.x, e.y, x, y) <= radius * radius)
                     ELSE << >>
       IN  inCell \o CollectCells(cells, x, y, radius, minCx, nCx, i + 1, n)

\* results.sort by distance: a stable sort, nearest first
RECURSIVE SortByDistance(_, _, _, _)
SortByDistance(results, x, y, i) ==
  IF i > Len(results) THEN << >>
  ELSE LET rest == SortByDistance(results, x, y, i + 1)
           e == results[i]
           d == distanceSq(e.x, e.y, x, y)
           p == Cardinality({ j \in 1..Len(rest) : distanceSq(rest[j].x, rest[j].y, x, y) < d })
       IN  SubSeq(rest, 1, p) \o << e >> \o SubSeq(rest, p + 1, Len(rest))

\* x, y, radius in thousandths
queryRadius(H, x, y, radius) ==
  LET cs == SPATIAL_HASH_CELL_SIZE * SCALE
      minCx == (x - radius) \div cs
      maxCx == (x + radius) \div cs
      minCy == (y - radius) \div cs
      maxCy == (y + radius) \div cs
      nCx == maxCx - minCx + 1
  IN  SortByDistance(
        CollectCells(H.cells, x, y, radius, <<minCx, minCy>>, nCx, 1,
                     nCx * (maxCy - minCy + 1)),
        x, y, 1)

findEnemiesInRange(H, x, y, ownerId, range) ==
  SelectSeq(queryRadius(H, x, y, range), LAMBDA e : e.ownerId # ownerId)

\* [found, entry]: the first entry of another owner, the radius growing from
\* the cell size by the cell size while it is <= maxRadius
RECURSIVE NearestEnemyFrom(_, _, _, _, _, _)
NearestEnemyFrom(H, x, y, ownerId, radius, maxRadius) ==
  IF radius > maxRadius THEN [ found |-> FALSE, entry |-> << >> ]
  ELSE LET enemies == SelectSeq(queryRadius(H, x, y, radius), LAMBDA e : e.ownerId # ownerId)
       IN  IF Len(enemies) > 0 THEN [ found |-> TRUE, entry |-> enemies[1] ]
           ELSE NearestEnemyFrom(H, x, y, ownerId, radius + SPATIAL_HASH_CELL_SIZE * SCALE,
                                 maxRadius)

findNearestEnemy(H, x, y, ownerId, maxRadius) ==
  NearestEnemyFrom(H, x, y, ownerId, SPATIAL_HASH_CELL_SIZE * SCALE, maxRadius)

\* ------------------------------------------------------------------ Match

\* The match object.  players, squads, botAIs and trainingQueues are the
\* program's Maps as sequences in insertion order (the order their loops
\* visit them); tiles holds the tiles that differ from DefaultTile.
HumanIds == << "p1", "p2", "p3", "p4" >>
BotIds == << "bot1", "bot2", "bot3", "bot4" >>

NoResult == [ scores |-> << >>, winnerId |-> NoOne ]

NewMatch ==
  [ phase |-> "waiting",
    tick |-> 0,
    tickInterval |-> FALSE,
    mapKind |-> "none",
    spawnLocations |-> << >>,
    players |-> << >>,
    tiles |-> EmptyMap,
    squads |-> << >>,
    nextSquadId |-> 1,
    spatialHash |-> [ cells |-> EmptyMap, entityCells |-> EmptyMap ],
    trainingQueues |-> << >>,
    rallyPoints |-> EmptyMap,
    towerCooldowns |-> EmptyMap,
    pendingCommands |-> << >>,
    playerStats |-> EmptyMap,
    eliminationCounter |-> 0,
    botAIs |-> << >>,
    supplyCheckCounter |-> 0,
    tickEvents |-> << >>,
    \* what the callbacks have received
    phaseChanges |-> << >>,
    matchEndCalls |-> 0,
    matchResult |-> NoResult,
    stateUpdates |-> << >>,
    \* the commands processCommands dispatched in the last tick, in order
    processed |-> << >> ]

HasPlayer(W, id) == \E i \in 1..Len(W.players) : W.players[i].id = id
PlayerIndex(W, id) == CHOOSE i \in 1..Len(W.players) : W.players[i].id = id
GetPlayer(W, id) == W.players[PlayerIndex(W, id)]
PlayerIds(W) == { W.players[i].id : i \in 1..Len(W.players) }

NewPlayer(id, bot) ==
  [ id |-> id, isBot |-> bot, gold |-> STARTING_GOLD * SCALE, goldPerSecond |-> 0,
    territoryCount |-> 0, capitalX |-> -1, capitalY |-> -1, alive |-> TRUE,
    score |-> 0, connected |-> TRUE, spawnSelected |-> FALSE ]

NewStats ==
  [ territoryCaptured |-> 0, unitsKilled |-> 0, unitsLost |-> 0, goldEarned |-> 0,
    eliminationOrder |-> 0 ]

addPlayer(W, playerId) ==
  IF Len(W.players) >= MAX_PLAYERS \/ HasPlayer(W, playerId) THEN W
  ELSE [W EXCEPT !.players = Append(@, NewPlayer(playerId, FALSE)),
                 !.playerStats = MapPut(@, playerId, NewStats)]

RECURSIVE fillWithBots(_, _)
fillWithBots(W, targetCount) ==
  IF Len(W.players) >= targetCount THEN W
  ELSE LET botId == BotIds[Len(W.players) + 1]
       IN  fillWithBots([W EXCEPT !.players = Append(@, NewPlayer(botId, TRUE)),
                                  !.playerStats = MapPut(@, botId, NewStats)],
                        targetCount)

\* composition is one entry {type, count} at every call site
createSquad(W, ownerId, x, y, type, count) ==
  LET squadId == W.nextSquadId
      units == Listed([ i \in 1..count |->
                         [ type |-> type, hp |-> UNIT_STATS[type].maxHp * SCALE ] ])
      squad == [ id |-> squadId, ownerId |-> ownerId, units |-> units, x |-> x, y |-> y,
                 target |-> << >>, path |-> << >>, pathIndex |-> 0, moveProgress |-> 0 ]
  IN  [W EXCEPT !.squads = Append(@, squad),
                !.nextSquadId = @ + 1,
                !.spatialHash = hashInsertOrUpdate(@, [ id |-> squadId, x |-> x, y |-> y,
                                                         ownerId |-> ownerId ])]

HasSquad(W, id) == \E i \in 1..Len(W.squads) : W.squads[i].id = id
SquadIndex(W, id) == CHOOSE i \in 1..Len(W.squads) : W.squads[i].id = id

\* removeSquad that leaves the squad's entry in the spatial hash
removeSquadKeepEntry(W, squadId) ==
  [W EXCEPT !.squads = SelectSeq(@, LAMBDA s : s.id # squadId)]

removeSquad(W, squadId) ==
  [W EXCEPT !.squads = SelectSeq(@, LAMBDA s : s.id # squadId),
            !.spatialHash = hashRemove(@, squadId)]

\* a starting region whose loops stop one short: dy < 2, dx < 2
SpawnRegionOffByOne(kind, x, y) ==
  { k \in ((x - 2)..(x + 1)) \X ((y - 2)..(y + 1)) :
      InMap(k[1], k[2]) /\ Terrain(kind, k[1], k[2]) # "mountain" }

\* the tiles the loops of executeSpawnSelection claim: dy, dx from -2 to 2,
\* inside the map, mountains left out
SpawnRegion(kind, x, y) ==
  { k \in ((x - 2)..(x + 2)) \X ((y - 2)..(y + 2)) :
      InMap(k[1], k[2]) /\ Terrain(kind, k[1], k[2]) # "mountain" }

executeSpawnSelection(W, playerId, x, y) ==
  IF ~HasPlayer(W, playerId) THEN W
  ELSE
    LET claimed == SpawnRegion(W.mapKind, x, y)
        t1 == Table([ k \in DOMAIN W.tiles \cup claimed |->
                        IF k \in claimed
                        THEN [ TileAt(W.tiles, k[1], k[2]) EXCEPT
                                 !.ownerId = playerId,
                                 !.captureProgress = CAPTURE_THRESHOLD * SCALE,
                                 !.capturingPlayerId = NoOne,
                                 !.connected = TRUE ]
                        ELSE W.tiles[k] ])
        t2 == SetTile(t1, x, y, [ TileAt(t1, x, y) EXCEPT
                                    !.structureType = "castle",
                                    !.structureHp = BUILDING_HP["castle"] * SCALE ])
        W1 == [W EXCEPT !.players[PlayerIndex(W, playerId)] =
                           [@ EXCEPT !.capitalX = x, !.capitalY = y, !.spawnSelected = TRUE],
                        !.tiles = t2]
    IN  createSquad(W1, playerId, x * SCALE, (y + 1) * SCALE, "militia", 5)

\* the loop of startMatch over the players: bots take the spawn sites in order
RECURSIVE AssignBotSpawns(_, _, _)
AssignBotSpawns(W, i, spawnIdx) ==
  IF i > Len(W.players) THEN W
  ELSE IF W.players[i].isBot /\ spawnIdx + 1 <= Len(W.spawnLocations)
       THEN LET spawn == W.spawnLocations[spawnIdx + 1]
            IN  AssignBotSpawns(executeSpawnSelection(W, W.players[i].id, spawn[1], spawn[2]),
                                i + 1, spawnIdx + 1)
       ELSE AssignBotSpawns(W, i + 1, spawnIdx)

\* kind: the map the generator produces
startMatch(W, kind) ==
  LET W1 == [W EXCEPT !.mapKind = kind,
                      !.tiles = EmptyMap,
                      !.spawnLocations = SpawnTable[kind][Len(W.players)]]
      W2 == AssignBotSpawns(W1, 1, 0)
  IN  [W2 EXCEPT !.phase = "spawn_selection",
                 !.phaseChanges = Append(@, "spawn_selection"),
                 !.tickInterval = TRUE]

\* --------------------------------------------------------------- commands

\* a GameEvent: its type, the player it names, the tile it names
Event(type, playerId, x, y) == [ type |-> type, playerId |-> playerId, x |-> x, y |-> y ]

\* A command as the transport delivers it.  Coordinates are numbers in
\* thousandths; every command carries every field, the unused ones zero.
Command(type, x, y, squadId, structureType, unitType, rallyX, rallyY) ==
  [ type |-> type, x |-> x, y |-> y, squadId |-> squadId, structureType |-> structureType,
    unitType |-> unitType, rallyX |-> rallyX, rallyY |-> rallyY ]

SelectSpawn(x, y) == Command("select_spawn", x, y, 0, "none", "none", 0, 0)
MoveSquad(squadId, targetX, targetY) ==
  Command("move_squad", targetX, targetY, squadId, "none", "none", 0, 0)
BuildStructure(structureType, x, y) ==
  Command("build_structure", x, y, 0, structureType, "none", 0, 0)
TrainUnit(unitType, buildingX, buildingY) ==
  Command("train_unit", buildingX, buildingY, 0, "none", unitType, 0, 0)
RallyPoint(buildingX, buildingY, rallyX, rallyY) ==
  Command("rally_point", buildingX, buildingY, 0, "none", "none", rallyX, rallyY)

\* The coordinate of a command whose field is missing or not a number:
\* Math.round of it is NaN, which no comparison of a bounds check rejects.
NaN == -2147483647

\* the entry of a queued message that carries no command at all
NullCommand == Command("null", 0, 0, 0, "none", "none", 0, 0)

\* a queueCommand that puts the command at the head of the buffer (unshift)
queueCommandFirst(W, playerId, command) ==
  IF ~HasPlayer(W, playerId) \/ ~GetPlayer(W, playerId).alive THEN W
  ELSE [W EXCEPT !.pendingCommands =
                    << [ playerId |-> playerId, command |-> command, tick |-> W.tick ] >> \o @]

queueCommand(W, playerId, command) ==
  IF ~HasPlayer(W, playerId) \/ ~GetPlayer(W, playerId).alive THEN W
  ELSE [W EXCEPT !.pendingCommands =
                    Append(@, [ playerId |-> playerId, command |-> command, tick |-> W.tick ])]

handleSelectSpawn(W, playerId, cmd) ==
  IF W.phase # "spawn_selection" THEN W
  ELSE IF ~HasPlayer(W, playerId) \/ GetPlayer(W, playerId).spawnSelected THEN W
  ELSE LET x == Round(cmd.x)
           y == Round(cmd.y)
           existingSpawns == { <<W.players[i].capitalX, W.players[i].capitalY>> :
                                 i \in { j \in 1..Len(W.players) : W.players[j].spawnSelected } }
       IN  IF isValidSpawn(W.mapKind, x, y, existingSpawns)
           THEN executeSpawnSelection(W, playerId, x, y)
           ELSE W

handleMoveSquad(W, playerId, cmd) ==
  IF W.phase # "playing" THEN W
  ELSE IF ~HasSquad(W, cmd.squadId) THEN W
  ELSE LET i == SquadIndex(W, cmd.squadId)
           squad == W.squads[i]
           targetX == clamp(Round(cmd.x), 0, MAP_WIDTH - 1)
           targetY == clamp(Round(cmd.y), 0, MAP_HEIGHT - 1)
       IN  IF squad.ownerId # playerId THEN W
           ELSE IF Terrain(W.mapKind, targetX, targetY) = "mountain" THEN W
           ELSE LET r == findPath(W.mapKind, W.tiles, Round(squad.x), Round(squad.y),
                                  targetX, targetY, MOVE_PATH_STEPS)
                IN  IF r.found /\ Len(r.path) > 0
                    THEN [W EXCEPT !.squads[i] =
                            [squad EXCEPT !.target = <<targetX, targetY>>,
                                          !.path = r.path,
                                          !.pathIndex = 0,
                                          !.moveProgress = 0]]
                    ELSE W

\* a gold check that asks for some gold, not for the price
AffordableAnyGold(gold, price) == gold > 0

\* if (player.gold < cost.gold) return; if (player.gold < stats.cost) return;
\* gold in thousandths
Affordable(gold, price) == gold >= price * SCALE

handleBuildStructure(W, playerId, cmd) ==
  IF W.phase # "playing" THEN W
  ELSE IF ~HasPlayer(W, playerId) THEN W
  ELSE LET x == Round(cmd.x)
           y == Round(cmd.y)
           player == GetPlayer(W, playerId)
           tile == TileAt(W.tiles, x, y)
           terrain == Terrain(W.mapKind, x, y)
       IN  IF ~InMap(x, y) THEN W
           ELSE IF tile.ownerId # playerId THEN W
           ELSE IF ~tile.connected THEN W
           ELSE IF terrain = "mountain" \/ terrain = "water" THEN W
           ELSE IF cmd.structureType = "mine_upgrade" /\ terrain # "mine" THEN W
           ELSE IF tile.structureType # NoStructure
                   /\ ~(cmd.structureType = "mine_upgrade" /\ terrain = "mine") THEN W
           ELSE IF cmd.structureType = "castle" THEN W
           ELSE IF cmd.structureType \notin StructureTypes THEN W
           ELSE IF ~Affordable(player.gold, BUILDING_COSTS[cmd.structureType]) THEN W
           ELSE [W EXCEPT
                   !.players[PlayerIndex(W, playerId)].gold =
                       @ - BUILDING_COSTS[cmd.structureType] * SCALE,
                   !.tiles = SetTile(@, x, y,
                       [tile EXCEPT !.structureType = cmd.structureType,
                                    !.structureHp = BUILDING_HP[cmd.structureType] * SCALE,
                                    !.mineLevel = IF cmd.structureType = "mine_upgrade"
                                                  THEN @ + 1 ELSE @]),
                   !.tickEvents = Append(@, Event("build", playerId, x, y))]

\* index of the queue of building key in trainingQueues, 0 when it has none
QueueIndex(W, key) ==
  IF \E i \in 1..Len(W.trainingQueues) : W.trainingQueues[i].key = key
  THEN CHOOSE i \in 1..Len(W.trainingQueues) : W.trainingQueues[i].key = key
  ELSE 0

handleTrainUnit(W, playerId, cmd) ==
  IF W.phase # "playing" THEN W
  ELSE IF ~HasPlayer(W, playerId) THEN W
  ELSE LET x == Round(cmd.x)
           y == Round(cmd.y)
           player == GetPlayer(W, playerId)
           tile == TileAt(W.tiles, x, y)
       IN  IF ~InMap(x, y) THEN W
           ELSE IF tile.ownerId # playerId THEN W
           ELSE IF tile.structureType # "castle" /\ tile.structureType # "barracks" THEN W
           ELSE IF ~tile.connected THEN W
           ELSE IF cmd.unitType \notin UnitTypes THEN W
           ELSE IF ~Affordable(player.gold, UNIT_STATS[cmd.unitType].cost) THEN W
           ELSE LET qi == QueueIndex(W, <<x, y>>)
                    queues == IF qi = 0
                              THEN Append(W.trainingQueues, [ key |-> <<x, y>>, queue |-> << >> ])
                              ELSE W.trainingQueues
                    qj == IF qi = 0 THEN Len(queues) ELSE qi
                    \* trainTime in milliseconds; a barracks trains in 0.7 of the time
                    trainTime == IF tile.structureType = "barracks"
                                 THEN UNIT_STATS[cmd.unitType].trainTime * 700
                                 ELSE UNIT_STATS[cmd.unitType].trainTime * 1000
                IN  IF Len(queues[qj].queue) >= MAX_QUEUE THEN W
                    ELSE [W EXCEPT
                            !.players[PlayerIndex(W, playerId)].gold =
                                @ - UNIT_STATS[cmd.unitType].cost * SCALE,
                            !.trainingQueues =
                                [queues EXCEPT ![qj].queue =
                                   \* paidBy is not a field of the order: it
                                   \* records whose gold was taken for it
                                   Append(@, [ unitType |-> cmd.unitType,
                                               remainingTime |-> trainTime,
                                               paidBy |-> playerId ])]]

handleRallyPoint(W, playerId, cmd) ==
  LET x == Round(cmd.x)
      y == Round(cmd.y)
  IN  IF ~InMap(x, y) \/ TileAt(W.tiles, x, y).ownerId # playerId THEN W
      ELSE [W EXCEPT !.rallyPoints = MapPut(@, <<x, y>>, <<cmd.rallyX, cmd.rallyY>>)]

\* the switch of processCommands
handleCommand(W, playerId, cmd) ==
  IF cmd.type = "select_spawn" THEN handleSelectSpawn(W, playerId, cmd)
  ELSE IF cmd.type = "move_squad" THEN handleMoveSquad(W, playerId, cmd)
  ELSE IF cmd.type = "build_structure" THEN handleBuildStructure(W, playerId, cmd)
  ELSE IF cmd.type = "train_unit" THEN handleTrainUnit(W, playerId, cmd)
  ELSE IF cmd.type = "rally_point" THEN handleRallyPoint(W, playerId, cmd)
  ELSE W

\* The commands on which the body of the try block raises a TypeError: the
\* switch reads the type of a missing command, and a handler indexes
\* map.tiles with NaN once its phase, player, squad and bounds checks let
\* the command through.  Each of these happens before the handler's first
\* assignment, so the match at the catch is the match before the command.
Throws(W, playerId, cmd) ==
  \/ cmd.type = "null"
  \/ /\ cmd.type = "move_squad"
     /\ W.phase = "playing"
     /\ HasSquad(W, cmd.squadId)
     /\ W.squads[SquadIndex(W, cmd.squadId)].ownerId = playerId
     /\ (cmd.x = NaN \/ cmd.y = NaN)
  \/ /\ cmd.type \in { "build_structure", "train_unit" }
     /\ W.phase = "playing"
     /\ HasPlayer(W, playerId)
     /\ (cmd.x = NaN \/ cmd.y = NaN)

\* one try block around the whole loop: the first exception ends the batch
RECURSIVE DispatchAllOneTry(_, _, _)
DispatchAllOneTry(W, commands, i) ==
  IF i > Len(commands) THEN W
  ELSE IF Throws(W, commands[i].playerId, commands[i].command)
       THEN [W EXCEPT !.processed = Append(@, commands[i])]
  ELSE DispatchAllOneTry([handleCommand(W, commands[i].playerId, commands[i].command)
                            EXCEPT !.processed = Append(@, commands[i])],
                         commands, i + 1)

\* the loop of processCommands over the drained commands, each in its own
\* try block whose catch only logs
RECURSIVE DispatchAll(_, _, _)
DispatchAll(W, commands, i) ==
  IF i > Len(commands) THEN W
  ELSE IF Throws(W, commands[i].playerId, commands[i].command)
       THEN DispatchAll([W EXCEPT !.processed = Append(@, commands[i])], commands, i + 1)
  ELSE DispatchAll([handleCommand(W, commands[i].playerId, commands[i].command)
                      EXCEPT !.processed = Append(@, commands[i])],
                   commands, i + 1)

\* const commands = this.pendingCommands.splice(0)
processCommands(W) ==
  DispatchAll([W EXCEPT !.pendingCommands = << >>], W.pendingCommands, 1)

\* ------------------------------------------------------------------ tick

\* a / b rounded toward zero, b > 0
TruncDiv(a, b) == IF a >= 0 THEN a \div b ELSE -((-a) \div b)

\* the units of a new unit of the given type
NewUnit(type) == [ type |-> type, hp |-> UNIT_STATS[type].maxHp * SCALE ]

\* index of the first squad a trained unit merges into, 0 when there is none
MergeIndex(W, ownerId, bx, by) ==
  LET ok(i) == /\ W.squads[i].ownerId = ownerId
               /\ ~(Abs(W.squads[i].x - bx * SCALE) > 2 * SCALE
                    /\ Abs(W.squads[i].y - by * SCALE) > 2 * SCALE)
               /\ Len(W.squads[i].units) < MAX_SQUAD_SIZE
               /\ Len(W.squads[i].path) = 0
  IN  IF \E i \in 1..Len(W.squads) : ok(i)
      THEN CHOOSE i \in 1..Len(W.squads) : ok(i) /\ \A j \in 1..(i - 1) : ~ok(j)
      ELSE 0

\* index of the first squad of the owner within 2 of the building on both
\* axes, 0 when there is none
RallyIndex(W, ownerId, bx, by) ==
  LET ok(i) == /\ W.squads[i].ownerId = ownerId
               /\ Abs(W.squads[i].x - bx * SCALE) <= 2 * SCALE
               /\ Abs(W.squads[i].y - by * SCALE) <= 2 * SCALE
  IN  IF \E i \in 1..Len(W.squads) : ok(i)
      THEN CHOOSE i \in 1..Len(W.squads) : ok(i) /\ \A j \in 1..(i - 1) : ~ok(j)
      ELSE 0

\* "if (rally)": send the first squad near the building to the rally point
SendToRally(W, ownerId, bx, by, rally) ==
  LET i == RallyIndex(W, ownerId, bx, by)
  IN  IF i = 0 THEN W
      ELSE LET squad == W.squads[i]
           IN  \* !squad.targetX: null, or the number 0
               IF ~(squad.target = << >> \/ squad.target[1] = 0) THEN W
               ELSE LET r == findPath(W.mapKind, W.tiles, Round(squad.x), Round(squad.y),
                                      Round(rally[1]), Round(rally[2]), RALLY_PATH_STEPS)
                    IN  IF r.found
                        THEN [W EXCEPT !.squads[i] =
                                [squad EXCEPT !.target = <<Round(rally[1]), Round(rally[2])>>,
                                              !.path = r.path,
                                              !.pathIndex = 0]]
                        ELSE W

\* the body of the loop of updateTraining for the qi-th queue
TrainQueue(W, qi, dt) ==
  LET key == W.trainingQueues[qi].key
      queue == W.trainingQueues[qi].queue
      bx == key[1]
      by == key[2]
      tile == TileAt(W.tiles, bx, by)
  IN  IF Len(queue) = 0 THEN W
      ELSE IF tile.structureType = NoStructure \/ tile.ownerId = NoOne \/ ~tile.connected
           THEN [W EXCEPT !.trainingQueues[qi].queue = << >>]
      ELSE LET remaining == queue[1].remainingTime - dt
           IN  IF remaining > 0
               THEN [W EXCEPT !.trainingQueues[qi].queue[1].remainingTime = remaining]
               ELSE LET W1 == [W EXCEPT !.trainingQueues[qi].queue = Tail(queue)]
                        hasRally == key \in DOMAIN W.rallyPoints
                        spawnX == IF hasRally THEN W.rallyPoints[key][1] ELSE bx * SCALE
                        spawnY == IF hasRally THEN W.rallyPoints[key][2] ELSE (by + 1) * SCALE
                        mi == MergeIndex(W1, tile.ownerId, bx, by)
                        W2 == IF mi # 0
                              THEN [W1 EXCEPT !.squads[mi].units =
                                                 Append(@, NewUnit(queue[1].unitType))]
                              ELSE createSquad(W1, tile.ownerId, spawnX, spawnY,
                                               queue[1].unitType, 1)
                    IN  IF hasRally
                        THEN SendToRally(W2, tile.ownerId, bx, by, W.rallyPoints[key])
                        ELSE W2

RECURSIVE TrainFrom(_, _, _)
TrainFrom(W, qi, dt) ==
  IF qi > Len(W.trainingQueues) THEN W ELSE TrainFrom(TrainQueue(W, qi, dt), qi + 1, dt)

\* a training pass that runs down the time of the waiting orders as well
updateTrainingAllOrders(W, dt) ==
  TrainFrom([W EXCEPT !.trainingQueues =
               [ i \in 1..Len(@) |->
                   [@[i] EXCEPT !.queue =
                      [ k \in 1..Len(@) |->
                          IF k = 1 THEN @[k] ELSE [@[k] EXCEPT !.remainingTime = @ - dt] ]] ]],
            1, dt)

updateTraining(W, dt) == TrainFrom(W, 1, dt)

\* the slowest unit's speed in thousandths of a tile per second, by terrain
getSquadSpeed(W, squad) ==
  IF Len(squad.units) = 0 THEN 0
  ELSE LET speeds == { UNIT_STATS[squad.units[i].type].speed : i \in 1..Len(squad.units) }
           minSpeed == CHOOSE v \in speeds : \A u \in speeds : v <= u
           tileX == Round(squad.x)
           tileY == Round(squad.y)
       IN  IF ~InMap(tileX, tileY) THEN minSpeed
           ELSE LET terrain == Terrain(W.mapKind, tileX, tileY)
                    s1 == IF terrain = "forest" THEN (minSpeed * 6) \div 10
                          ELSE IF terrain = "water" THEN (minSpeed * 4) \div 10
                          ELSE minSpeed
                IN  IF TileAt(W.tiles, tileX, tileY).structureType = "road"
                    THEN (s1 * 15) \div 10 ELSE s1

\* the body of the loop of updateUnitMovement for the i-th squad
MoveSquadStep(W, i, dt) ==
  LET squad == W.squads[i]
  IN  IF Len(squad.path) = 0 \/ squad.pathIndex >= Len(squad.path)
      THEN [W EXCEPT !.squads[i] =
              [squad EXCEPT !.path = << >>, !.pathIndex = 0, !.target = << >>]]
      ELSE
        LET speed == getSquadSpeed(W, squad)
            target == squad.path[squad.pathIndex + 1]
            dx == target[1] * SCALE - squad.x
            dy == target[2] * SCALE - squad.y
            dist == ISqrt(dx * dx + dy * dy)
            move == (speed * dt) \div SCALE
            moved == IF dist < 50
                     THEN [squad EXCEPT !.x = target[1] * SCALE, !.y = target[2] * SCALE,
                                        !.pathIndex = @ + 1, !.moveProgress = 0]
                     ELSE IF move >= dist
                          THEN [squad EXCEPT !.x = @ + dx, !.y = @ + dy]
                          ELSE [squad EXCEPT !.x = @ + TruncDiv(dx * move, dist),
                                             !.y = @ + TruncDiv(dy * move, dist)]
        IN  [W EXCEPT !.squads[i] = moved,
                      !.spatialHash = hashInsertOrUpdate(@, [ id |-> moved.id, x |-> moved.x,
                                                               y |-> moved.y,
                                                               ownerId |-> moved.ownerId ])]

RECURSIVE MoveFrom(_, _, _)
MoveFrom(W, i, dt) ==
  IF i > Len(W.squads) THEN W ELSE MoveFrom(MoveSquadStep(W, i, dt), i + 1, dt)

updateUnitMovement(W, dt) == MoveFrom(W, 1, dt)

\* ---------------------------------------------------------------- combat

RECURSIVE SumSeq(_, _)
SumSeq(seq, i) == IF i > Len(seq) THEN 0 ELSE seq[i] + SumSeq(seq, i + 1)

\* damage in thousandths of a hit point; distance in thousandths, dt in ms
calculateSquadDamage(squad, distance, dt) ==
  SumSeq(Listed([ i \in 1..Len(squad.units) |->
                    IF distance > UNIT_STATS[squad.units[i].type].range * SCALE + 500 THEN 0
                    ELSE UNIT_STATS[squad.units[i].type].damage * dt ]), 1)

AddStat(stats, playerId, field, n) ==
  IF playerId \in DOMAIN stats
  THEN [stats EXCEPT ![playerId] = [@ EXCEPT ![field] = @ + n]]
  ELSE stats

\* i: index of the squad in W.squads
applyDamageToSquad(W, i, damage, attackerOwnerId) ==
  LET squad == W.squads[i]
  IN  IF damage <= 0 \/ Len(squad.units) = 0 THEN W
      ELSE LET limit == Min2(Len(squad.units), 3)
               perUnit == damage \div limit
               hit == Listed([ k \in 1..Len(squad.units) |->
                                 IF k <= limit THEN [squad.units[k] EXCEPT !.hp = @ - perUnit]
                                 ELSE squad.units[k] ])
               dead == Cardinality({ k \in 1..limit : hit[k].hp <= 0 })
           IN  [W EXCEPT
                  !.squads[i].units = SelectSeq(hit, LAMBDA u : u.hp > 0),
                  !.playerStats = AddStat(AddStat(@, attackerOwnerId, "unitsKilled", dead),
                                          squad.ownerId, "unitsLost", dead)]

\* a resolution in turns: the second squad answers with what is left of it
engageCombatInTurns(W, i1, i2, distance, dt) ==
  LET dmg1to2 == calculateSquadDamage(W.squads[i1], distance, dt)
      W1 == applyDamageToSquad(W, i2, dmg1to2, W.squads[i1].ownerId)
      dmg2to1 == calculateSquadDamage(W1.squads[i2], distance, dt)
      W2 == applyDamageToSquad(W1, i1, dmg2to1, W.squads[i2].ownerId)
  IN  IF distance <= 1500
      THEN [W2 EXCEPT !.squads[i1].path = << >>, !.squads[i1].pathIndex = 0,
                      !.squads[i2].path = << >>, !.squads[i2].pathIndex = 0]
      ELSE W2

\* i1, i2: indexes of the two squads in W.squads
engageCombat(W, i1, i2, distance, dt) ==
  LET dmg1to2 == calculateSquadDamage(W.squads[i1], distance, dt)
      dmg2to1 == calculateSquadDamage(W.squads[i2], distance, dt)
      W1 == applyDamageToSquad(W, i2, dmg1to2, W.squads[i1].ownerId)
      W2 == applyDamageToSquad(W1, i1, dmg2to1, W.squads[i2].ownerId)
  IN  IF distance <= 1500
      THEN [W2 EXCEPT !.squads[i1].path = << >>, !.squads[i1].pathIndex = 0,
                      !.squads[i2].path = << >>, !.squads[i2].pathIndex = 0]
      ELSE W2

\* eliminatePlayer without the pass that clears the territory
eliminatePlayerKeepTiles(W, playerId) ==
  IF ~HasPlayer(W, playerId) \/ ~GetPlayer(W, playerId).alive THEN W
  ELSE
    LET counter == W.eliminationCounter + 1
        gone == { W.squads[i].id : i \in { j \in 1..Len(W.squads) : W.squads[j].ownerId = playerId } }
        hash == [ cells |-> Table([ k \in { c \in DOMAIN W.spatialHash.cells :
                                              \E e \in 1..Len(W.spatialHash.cells[c]) :
                                                 W.spatialHash.cells[c][e].id \notin gone } |->
                                      SelectSeq(W.spatialHash.cells[k],
                                                LAMBDA e : e.id \notin gone) ]),
                  entityCells |-> Table([ id \in DOMAIN W.spatialHash.entityCells \ gone |->
                                            W.spatialHash.entityCells[id] ]) ]
    IN  [W EXCEPT
           !.players[PlayerIndex(W, playerId)].alive = FALSE,
           !.eliminationCounter = counter,
           !.playerStats = IF playerId \in DOMAIN @
                           THEN [@ EXCEPT ![playerId].eliminationOrder = counter] ELSE @,
           !.squads = SelectSeq(@, LAMBDA sq : sq.ownerId # playerId),
           !.spatialHash = hash,
           !.botAIs = SelectSeq(@, LAMBDA b : b # playerId),
           !.trainingQueues = SelectSeq(@, LAMBDA q :
                                 TileAt(W.tiles, q.key[1], q.key[2]).ownerId # playerId),
           !.tickEvents = Append(@, Event("player_eliminated", playerId, -1, -1))]

eliminatePlayer(W, playerId) ==
  IF ~HasPlayer(W, playerId) \/ ~GetPlayer(W, playerId).alive THEN W
  ELSE
    LET counter == W.eliminationCounter + 1
        gone == { W.squads[i].id : i \in { j \in 1..Len(W.squads) : W.squads[j].ownerId = playerId } }
        hash == [ cells |-> Table([ k \in { c \in DOMAIN W.spatialHash.cells :
                                              \E e \in 1..Len(W.spatialHash.cells[c]) :
                                                 W.spatialHash.cells[c][e].id \notin gone } |->
                                      SelectSeq(W.spatialHash.cells[k],
                                                LAMBDA e : e.id \notin gone) ]),
                  entityCells |-> Table([ id \in DOMAIN W.spatialHash.entityCells \ gone |->
                                            W.spatialHash.entityCells[id] ]) ]
        cleared == Table([ k \in { t \in DOMAIN W.tiles :
                                     ~(W.tiles[t].ownerId = playerId
                                       /\ W.tiles[t].mineLevel = 0) } |->
                             IF W.tiles[k].ownerId = playerId
                             THEN [ DefaultTile EXCEPT !.mineLevel = W.tiles[k].mineLevel ]
                             ELSE W.tiles[k] ])
    IN  [W EXCEPT
           !.players[PlayerIndex(W, playerId)].alive = FALSE,
           !.eliminationCounter = counter,
           !.playerStats = IF playerId \in DOMAIN @
                           THEN [@ EXCEPT ![playerId].eliminationOrder = counter] ELSE @,
           !.squads = SelectSeq(@, LAMBDA sq : sq.ownerId # playerId),
           !.spatialHash = hash,
           !.tiles = cleared,
           !.botAIs = SelectSeq(@, LAMBDA b : b # playerId),
           \* the queues of the buildings the player owns, looked up after the
           \* territory was cleared
           !.trainingQueues = SelectSeq(@, LAMBDA q :
                                 TileAt(cleared, q.key[1], q.key[2]).ownerId # playerId),
           !.tickEvents = Append(@, Event("player_eliminated", playerId, -1, -1))]

\* i: index of the squad in W.squads
attackEnemyStructures(W, i, dt) ==
  LET squad == W.squads[i]
      tileX == Round(squad.x)
      tileY == Round(squad.y)
      tile == TileAt(W.tiles, tileX, tileY)
  IN  IF ~InMap(tileX, tileY) THEN W
      ELSE IF tile.structureType = NoStructure \/ tile.ownerId = NoOne
              \/ tile.ownerId = squad.ownerId THEN W
      ELSE LET totalDamage ==
                 SumSeq(Listed([ k \in 1..Len(squad.units) |->
                            UNIT_STATS[squad.units[k].type].damage
                              * (IF squad.units[k].type = "siege_ram" THEN 3 ELSE 1) * dt ]), 1)
               hp == tile.structureHp - totalDamage
               W1 == [W EXCEPT !.tiles = SetTile(@, tileX, tileY, [tile EXCEPT !.structureHp = hp])]
           IN  IF hp > 0 THEN W1
               ELSE LET W2 == IF tile.structureType = "castle"
                              THEN eliminatePlayer(W1, tile.ownerId) ELSE W1
                    IN  [W2 EXCEPT
                           !.tiles = SetTile(@, tileX, tileY,
                                       [TileAt(W2.tiles, tileX, tileY) EXCEPT
                                          !.structureType = NoStructure, !.structureHp = 0]),
                           !.tickEvents = Append(@, Event("structure_destroyed", squad.ownerId,
                                                          tileX, tileY))]

\* the loop over the enemies found around the squad with id sid; C carries
\* the match and processedPairs
RECURSIVE EngageFrom(_, _, _, _, _)
EngageFrom(C, sid, enemies, k, dt) ==
  IF k > Len(enemies) THEN C
  ELSE LET eid == enemies[k].id
       IN  IF ~HasSquad(C.W, eid) \/ Len(C.W.squads[SquadIndex(C.W, eid)].units) = 0
              \/ {sid, eid} \in C.pairs
           THEN EngageFrom(C, sid, enemies, k + 1, dt)
           ELSE LET i1 == SquadIndex(C.W, sid)
                    i2 == SquadIndex(C.W, eid)
                    dx == C.W.squads[i1].x - C.W.squads[i2].x
                    dy == C.W.squads[i1].y - C.W.squads[i2].y
                    dist == ISqrt(dx * dx + dy * dy)
                IN  EngageFrom([ C EXCEPT !.W = engageCombat(C.W, i1, i2, dist, dt),
                                          !.pairs = @ \cup {{sid, eid}} ],
                               sid, enemies, k + 1, dt)

\* the loop of resolveCombat over the squads; ids are the squads' ids in
\* iteration order, and a squad deleted meanwhile is not visited
RECURSIVE CombatFrom(_, _, _, _)
CombatFrom(C, ids, n, dt) ==
  IF n > Len(ids) THEN C
  ELSE IF ~HasSquad(C.W, ids[n]) THEN CombatFrom(C, ids, n + 1, dt)
  ELSE LET squad == C.W.squads[SquadIndex(C.W, ids[n])]
       IN  IF Len(squad.units) = 0
           THEN CombatFrom([C EXCEPT !.toRemove = Append(@, ids[n])], ids, n + 1, dt)
           ELSE LET enemies == findEnemiesInRange(C.W.spatialHash, squad.x, squad.y,
                                                  squad.ownerId, 2 * SCALE)
                    C1 == EngageFrom(C, ids[n], enemies, 1, dt)
                    C2 == [C1 EXCEPT !.W = attackEnemyStructures(C1.W, SquadIndex(C1.W, ids[n]), dt)]
                IN  CombatFrom(C2, ids, n + 1, dt)

RECURSIVE RemoveSquads(_, _, _)
RemoveSquads(W, ids, n) ==
  IF n > Len(ids) THEN W ELSE RemoveSquads(removeSquad(W, ids[n]), ids, n + 1)

resolveCombat(W, dt) ==
  LET C == CombatFrom([ W |-> W, pairs |-> {}, toRemove |-> << >> ],
                      Listed([ i \in 1..Len(W.squads) |-> W.squads[i].id ]), 1, dt)
  IN  RemoveSquads(C.W, C.toRemove, 1)

\* ---------------------------------------------------------------- towers

\* a set of tile keys in the order of "for y ... for x ..."
SortTiles(S) ==
  LET rank == Table([ k \in S |-> 1 + Cardinality({ j \in S :
                                      j[2] < k[2] \/ (j[2] = k[2] /\ j[1] < k[1]) }) ])
  IN  Listed([ i \in 1..Cardinality(S) |-> CHOOSE k \in S : rank[k] = i ])

\* the body of the loops of updateTowers for the tower on tile key; rnd is
\* the value of Math.floor(Math.random() * 2)
FireTower(W, key, rnd) ==
  LET tile == TileAt(W.tiles, key[1], key[2])
      lastFired == IF key \in DOMAIN W.towerCooldowns THEN W.towerCooldowns[key] ELSE 0
      cooldownTicks == TICK_RATE \div TOWER_FIRE_RATE
      enemy == findNearestEnemy(W.spatialHash, key[1] * SCALE, key[2] * SCALE, tile.ownerId,
                                TOWER_RANGE * SCALE)
  IN  IF W.tick - lastFired < cooldownTicks THEN W
      ELSE IF ~enemy.found \/ ~HasSquad(W, enemy.entry.id) THEN W
      ELSE LET i == SquadIndex(W, enemy.entry.id)
               squad == W.squads[i]
               targetIdx == IF Min2(Len(squad.units), 2) = 2 THEN rnd + 1 ELSE 1
           IN  IF Len(squad.units) = 0 THEN W
               ELSE LET hp == squad.units[targetIdx].hp - TOWER_DAMAGE * SCALE
                        units == IF hp <= 0
                                 THEN SubSeq(squad.units, 1, targetIdx - 1)
                                        \o SubSeq(squad.units, targetIdx + 1, Len(squad.units))
                                 ELSE [squad.units EXCEPT ![targetIdx].hp = hp]
                    IN  [W EXCEPT
                           !.squads[i].units = units,
                           !.playerStats =
                               IF hp <= 0
                               THEN AddStat(AddStat(@, tile.ownerId, "unitsKilled", 1),
                                            squad.ownerId, "unitsLost", 1)
                               ELSE @,
                           !.towerCooldowns = MapPut(@, key, W.tick),
                           !.tickEvents = Append(@, Event("tower_fire", tile.ownerId,
                                                          key[1], key[2]))]

RECURSIVE TowersFrom(_, _, _, _)
TowersFrom(W, towers, n, rnd) ==
  IF n > Len(towers) THEN W ELSE TowersFrom(FireTower(W, towers[n], rnd), towers, n + 1, rnd)

updateTowers(W, rnd) ==
  TowersFrom(W, SortTiles({ k \in DOMAIN W.tiles :
                              /\ W.tiles[k].structureType = "tower"
                              /\ W.tiles[k].ownerId # NoOne
                              /\ W.tiles[k].connected }), 1, rnd)

\* -------------------------------------------------------------- territory

\* squadPositions: one entry per occupied tile, in the order of the first
\* squad found on it; squads of another owner than the first are left out
RECURSIVE SquadPositions(_, _, _)
SquadPositions(squads, i, acc) ==
  IF i > Len(squads) THEN acc
  ELSE LET key == << Round(squads[i].x), Round(squads[i].y) >>
           at == { j \in 1..Len(acc) : acc[j].key = key }
       IN  IF at = {}
           THEN SquadPositions(squads, i + 1,
                  Append(acc, [ key |-> key, playerId |-> squads[i].ownerId,
                                unitCount |-> Len(squads[i].units) ]))
           ELSE LET j == CHOOSE j \in at : TRUE
                IN  IF acc[j].playerId = squads[i].ownerId
                    THEN SquadPositions(squads, i + 1,
                           [acc EXCEPT ![j].unitCount = @ + Len(squads[i].units)])
                    ELSE SquadPositions(squads, i + 1, acc)

AddTerritory(players, playerId, n) ==
  Listed([ i \in 1..Len(players) |->
             IF players[i].id = playerId
             THEN [players[i] EXCEPT !.territoryCount = Max2(0, @ + n)]
             ELSE players[i] ])

\* a contested capture that forgets the floor at 0 and the change of capturer
ContestTileNoFloor(tile, presence, dt) ==
  [tile EXCEPT !.captureProgress = @ - (CAPTURE_RATE * dt * presence.unitCount) \div 2]

\* the contested branch: the progress of the other capturer shrinks, and at 0
\* the capture passes to the one present; dt in ms
ContestTile(tile, presence, dt) ==
  LET p == tile.captureProgress - (CAPTURE_RATE * dt * presence.unitCount) \div 2
  IN  IF p <= 0
      THEN [tile EXCEPT !.captureProgress = 0, !.capturingPlayerId = presence.playerId]
      ELSE [tile EXCEPT !.captureProgress = p]

\* a capture that keeps the progress it reached
CapturedProgressRaw(p) == p

\* tile.captureProgress = MATCH_CONFIG.CAPTURE_THRESHOLD, p the progress reached
CapturedProgress(p) == CAPTURE_THRESHOLD * SCALE

\* the body of the capture loop for one presence; dt in ms
CaptureTile(W, presence, dt) ==
  LET tx == presence.key[1]
      ty == presence.key[2]
      tile == TileAt(W.tiles, tx, ty)
  IN  IF ~InMap(tx, ty) THEN W
      ELSE IF Terrain(W.mapKind, tx, ty) = "mountain" THEN W
      ELSE IF tile.ownerId = presence.playerId
              /\ tile.captureProgress >= CAPTURE_THRESHOLD * SCALE THEN W
      ELSE IF tile.ownerId = presence.playerId THEN W
      ELSE IF tile.capturingPlayerId # NoOne /\ tile.capturingPlayerId # presence.playerId
           THEN [W EXCEPT !.tiles = SetTile(@, tx, ty, ContestTile(tile, presence, dt))]
      ELSE LET p == tile.captureProgress + CAPTURE_RATE * dt * Min2(presence.unitCount, 5)
           IN  IF p >= CAPTURE_THRESHOLD * SCALE
               THEN [W EXCEPT
                       !.tiles = SetTile(@, tx, ty,
                           [tile EXCEPT !.ownerId = presence.playerId,
                                        !.captureProgress = CapturedProgress(p),
                                        !.capturingPlayerId = NoOne]),
                       !.players = LET gained == AddTerritory(@, presence.playerId, 1)
                                   IN  IF tile.ownerId # NoOne
                                       THEN AddTerritory(gained, tile.ownerId, -1)
                                       ELSE gained,
                       !.playerStats = AddStat(@, presence.playerId, "territoryCaptured", 1)]
               ELSE [W EXCEPT !.tiles = SetTile(@, tx, ty,
                        [tile EXCEPT !.capturingPlayerId = presence.playerId,
                                     !.captureProgress = p])]

RECURSIVE CaptureFrom(_, _, _, _)
CaptureFrom(W, positions, n, dt) ==
  IF n > Len(positions) THEN W
  ELSE CaptureFrom(CaptureTile(W, positions[n], dt), positions, n + 1, dt)

updateTerritory(W, dt) == CaptureFrom(W, SquadPositions(W.squads, 1, << >>), 1, dt)

\* ----------------------------------------------------------- supply lines

\* the tiles the flood fill from visited reaches over the tiles in owned
RECURSIVE Flood(_, _)
Flood(owned, visited) ==
  LET next == Members({ k \in owned \ visited :
                          \E v \in visited : Abs(k[1] - v[1]) + Abs(k[2] - v[2]) = 1 })
  IN  IF next = {} THEN visited ELSE Flood(owned, Members(visited \cup next))

\* no flood fill: every tile of the player counts as supplied
ConnectedOfOwned(W, player) ==
  IF ~player.alive \/ ~player.spawnSelected THEN {}
  ELSE Members({ k \in DOMAIN W.tiles : W.tiles[k].ownerId = player.id })

\* the tiles the flood fill of one player marks connected
ConnectedOf(W, player) ==
  IF ~player.alive \/ ~player.spawnSelected THEN {}
  ELSE IF ~InMap(player.capitalX, player.capitalY)
          \/ TileAt(W.tiles, player.capitalX, player.capitalY).ownerId # player.id THEN {}
  ELSE Flood(Members({ k \in DOMAIN W.tiles :
                         /\ W.tiles[k].ownerId = player.id
                         /\ Terrain(W.mapKind, k[1], k[2]) # "mountain" }),
             { << player.capitalX, player.capitalY >> })

updateSupplyLines(W) ==
  LET connected == Members(UNION { ConnectedOf(W, W.players[i]) : i \in 1..Len(W.players) })
      flagged == Table([ k \in DOMAIN W.tiles |->
                           [W.tiles[k] EXCEPT !.connected = k \in connected] ])
      kept == Table([ k \in { t \in DOMAIN flagged : flagged[t] # DefaultTile } |->
                        flagged[k] ])
  IN  [W EXCEPT
         !.tiles = kept,
         !.players = Listed([ i \in 1..Len(W.players) |->
                                [W.players[i] EXCEPT !.territoryCount =
                                   Cardinality({ k \in DOMAIN kept :
                                                   kept[k].ownerId = W.players[i].id })] ])]

\* ---------------------------------------------------------------- economy

\* Math.pow(n / 50, 1.2) in thousandths for n = 0 .. 120, position n + 1
PenaltyTable ==
  <<
     0, 9, 21, 34, 48, 63, 79, 94, 111, 128, 145,
     163, 180, 199, 217, 236, 255, 274, 293, 313, 333, 353,
     373, 394, 414, 435, 456, 477, 499, 520, 542, 563, 585,
     607, 630, 652, 674, 697, 719, 742, 765, 788, 811, 834,
     858, 881, 905, 928, 952, 976, 1000, 1024, 1048, 1072, 1097,
     1121, 1146, 1170, 1195, 1220, 1245, 1269, 1295, 1320, 1345, 1370,
     1395, 1421, 1446, 1472, 1497, 1523, 1549, 1575, 1601, 1627, 1653,
     1679, 1705, 1731, 1758, 1784, 1811, 1837, 1864, 1890, 1917, 1944,
     1971, 1998, 2025, 2052, 2079, 2106, 2133, 2160, 2188, 2215, 2242,
     2270, 2297, 2325, 2353, 2380, 2408, 2436, 2464, 2492, 2520, 2548,
     2576, 2604, 2632, 2660, 2689, 2717, 2745, 2774, 2802, 2831, 2859
  >>

\* Math.pow(territoryCount / EXPANSION_PENALTY_DIVISOR, EXPANSION_PENALTY_EXPONENT),
\* in thousandths
PenaltyPow(territoryCount) == PenaltyTable[Min2(territoryCount, Len(PenaltyTable) - 1) + 1]

\* baseIncome of a player in thousandths of gold per second
BaseIncome(W, playerId) ==
  LET mine == SortTiles({ k \in DOMAIN W.tiles :
                            W.tiles[k].ownerId = playerId /\ W.tiles[k].connected })
  IN  SumSeq(Listed([ i \in 1..Len(mine) |->
                PASSIVE_TERRITORY_INCOME
                  + (IF Terrain(W.mapKind, mine[i][1], mine[i][2]) = "mine"
                     THEN (BASE_MINE_INCOME
                             + W.tiles[mine[i]].mineLevel * MINE_UPGRADE_BONUS) * SCALE
                     ELSE 0) ]), 1)

\* goldPerSecond in thousandths
GoldPerSecond(W, player) ==
  (BaseIncome(W, player.id) * SCALE) \div (SCALE + PenaltyPow(player.territoryCount))

calculateEconomy(W, dt) ==
  LET gps == Listed([ i \in 1..Len(W.players) |-> GoldPerSecond(W, W.players[i]) ])
      earned == Listed([ i \in 1..Len(W.players) |->
                           IF W.players[i].alive THEN (gps[i] * dt) \div SCALE ELSE 0 ])
  IN  [W EXCEPT
         !.players = Listed([ i \in 1..Len(W.players) |->
                         IF W.players[i].alive
                         THEN [W.players[i] EXCEPT
                                 \* Math.round(goldPerSecond * 100) / 100, in thousandths
                                 !.goldPerSecond = ((gps[i] + 5) \div 10) * 10,
                                 !.gold = @ + earned[i]]
                         ELSE W.players[i] ]),
         !.playerStats = Table([ id \in DOMAIN W.playerStats |->
                             IF HasPlayer(W, id)
                             THEN [W.playerStats[id] EXCEPT
                                     !.goldEarned = @ + earned[PlayerIndex(W, id)]]
                             ELSE W.playerStats[id] ])]

\* ------------------------------------------------- scores and the match end

updateScores(W) ==
  [W EXCEPT !.players =
     Listed([ i \in 1..Len(W.players) |->
         IF W.players[i].alive
         THEN LET stats == W.playerStats[W.players[i].id]
              IN  [W.players[i] EXCEPT !.score =
                     W.players[i].territoryCount * 2 + stats.unitsKilled * 5
                       + stats.territoryCaptured + stats.goldEarned \div (100 * SCALE)]
         ELSE W.players[i] ])]

\* no sort: the standings in roster order
ScoreBeforeInRoster(scores, i, j) == i < j

\* scores.sort: alive first, then by score, descending; the sort is stable
ScoreBefore(scores, i, j) ==
  \/ scores[i].alive /\ ~scores[j].alive
  \/ scores[i].alive = scores[j].alive
       /\ (scores[i].score > scores[j].score
           \/ (scores[i].score = scores[j].score /\ i < j))

buildMatchResult(W) ==
  LET n == Len(W.players)
      scores == Listed([ i \in 1..n |->
                    [ playerId |-> W.players[i].id,
                      isBot |-> W.players[i].isBot,
                      score |-> W.players[i].score,
                      territoryCaptured |-> W.playerStats[W.players[i].id].territoryCaptured,
                      unitsKilled |-> W.playerStats[W.players[i].id].unitsKilled,
                      unitsLost |-> W.playerStats[W.players[i].id].unitsLost,
                      goldEarned |-> Round(W.playerStats[W.players[i].id].goldEarned),
                      alive |-> W.players[i].alive,
                      placement |-> 0 ] ])
      rank == Listed([ i \in 1..n |->
                         1 + Cardinality({ j \in 1..n : ScoreBefore(scores, j, i) }) ])
      sorted == Listed([ p \in 1..n |->
                    [ scores[CHOOSE i \in 1..n : rank[i] = p] EXCEPT !.placement = p ] ])
  IN  [ scores |-> sorted,
        winnerId |-> IF n > 0 THEN sorted[1].playerId ELSE NoOne ]

endMatch(W) ==
  LET result == buildMatchResult(W)
  IN  [W EXCEPT !.phase = "finished",
                !.tickInterval = FALSE,
                !.matchEndCalls = @ + 1,
                !.matchResult = result,
                !.phaseChanges = Append(@, "finished")]

AliveCount(W) == Cardinality({ i \in 1..Len(W.players) : W.players[i].alive })

\* an end check that looks at the survivors only
checkEndConditionsNoTimer(W, matchTimeUp) ==
  IF AliveCount(W) <= 1 THEN endMatch(W) ELSE W

\* matchTimeUp: now >= this.matchEndTime
checkEndConditions(W, matchTimeUp) ==
  IF matchTimeUp THEN endMatch(W)
  ELSE IF AliveCount(W) <= 1 THEN endMatch(W)
  ELSE W

\* ------------------------------------------------------------------- bots

\* runBots: botCommands is what the update of each bot returned, a sequence of
\* [playerId, command] in the order of the bots
RECURSIVE QueueAll(_, _, _)
QueueAll(W, botCommands, i) ==
  IF i > Len(botCommands) THEN W
  ELSE QueueAll(queueCommand(W, botCommands[i].playerId, botCommands[i].command),
                botCommands, i + 1)

runBots(W, botCommands) == QueueAll(W, botCommands, 1)

\* ------------------------------------------------------------- spawn phase

\* some instead of every: one living client with a spawn is enough
somePlayerSpawned(W) ==
  \E i \in 1..Len(W.players) :
     W.players[i].spawnSelected /\ W.players[i].alive /\ ~W.players[i].isBot

allPlayersSpawned(W) ==
  \A i \in 1..Len(W.players) :
     ~(~W.players[i].spawnSelected /\ W.players[i].alive /\ ~W.players[i].isBot)

\* the second loop of finishSpawnPhase: availableSpawns.shift() for each
\* living player without a spawn, elimination when none is left
RECURSIVE AutoAssign(_, _, _)
AutoAssign(W, i, availableSpawns) ==
  IF i > Len(W.players) THEN W
  ELSE IF ~W.players[i].spawnSelected /\ W.players[i].alive
       THEN IF Len(availableSpawns) > 0
            THEN AutoAssign(executeSpawnSelection(W, W.players[i].id,
                                                  availableSpawns[1][1], availableSpawns[1][2]),
                            i + 1, Tail(availableSpawns))
            ELSE AutoAssign([W EXCEPT !.players[i].alive = FALSE], i + 1, availableSpawns)
       ELSE AutoAssign(W, i + 1, availableSpawns)

\* an end of the spawn phase that sets the wrong member of MatchPhase
enterFinished(W) ==
  [W EXCEPT !.phase = "finished", !.phaseChanges = Append(@, "finished")]

\* the end of finishSpawnPhase: the bot AIs of the living bots, and the
\* transition to the playing phase
enterPlaying(W) ==
  LET bots == SelectSeq(W.players, LAMBDA p : p.isBot /\ p.alive)
      \* botAIs.set(pid, ...): a key already present keeps its place
      newBots == SelectSeq(Listed([ i \in 1..Len(bots) |-> bots[i].id ]),
                           LAMBDA id : \A j \in 1..Len(W.botAIs) : W.botAIs[j] # id)
  IN  [W EXCEPT !.botAIs = @ \o newBots,
                !.phase = "playing",
                !.phaseChanges = Append(@, "playing")]

finishSpawnPhase(W) ==
  LET used == { << W.players[i].capitalX, W.players[i].capitalY >> :
                  i \in { j \in 1..Len(W.players) : W.players[j].spawnSelected } }
      availableSpawns == SelectSeq(W.spawnLocations, LAMBDA s : s \notin used)
  IN  enterPlaying(AutoAssign(W, 1, availableSpawns))

\* spawnTimeUp: now >= this.spawnPhaseEndTime
checkSpawnPhase(W, spawnTimeUp) ==
  IF spawnTimeUp \/ allPlayersSpawned(W) THEN finishSpawnPhase(W) ELSE W

tickSpawnPhase(W, spawnTimeUp) == checkSpawnPhase(processCommands(W), spawnTimeUp)

\* ------------------------------------------------------------ the tick

\* the supply check of tickGameplay, every SUPPLY_CHECK_INTERVAL ticks
checkSupply(W) ==
  IF W.supplyCheckCounter + 1 >= SUPPLY_CHECK_INTERVAL
  THEN updateSupplyLines([W EXCEPT !.supplyCheckCounter = 0])
  ELSE [W EXCEPT !.supplyCheckCounter = @ + 1]

\* tickGameplay with the bots run ahead of the command drain
tickGameplayBotsFirst(W, dt, matchTimeUp, rnd, botCommands) ==
  checkEndConditions(
    updateScores(
      calculateEconomy(
        checkSupply(
          updateTerritory(
            updateTowers(
              resolveCombat(
                updateUnitMovement(
                  updateTraining(
                    processCommands(runBots(W, botCommands)),
                    dt),
                  dt),
                dt),
              rnd),
            dt)),
        dt)),
    matchTimeUp)

\* the steps of tickGameplay, the first one innermost
tickGameplay(W, dt, matchTimeUp, rnd, botCommands) ==
  checkEndConditions(
    updateScores(
      calculateEconomy(
        checkSupply(
          updateTerritory(
            updateTowers(
              resolveCombat(
                updateUnitMovement(
                  updateTraining(
                    runBots(processCommands(W), botCommands),
                    dt),
                  dt),
                dt),
              rnd),
            dt)),
        dt)),
    matchTimeUp)

\* the players a snapshot is sent to, in roster order
\* the offsets (dx, dy) that addVisibilityRadius keeps
DiskOffsets(radius) ==
  { d \in (-radius..radius) \X (-radius..radius) :
      d[1] * d[1] + d[2] * d[2] <= radius * radius }

addVisibilityRadius(visible, cx, cy, radius) ==
  visible \cup { << cx + d[1], cy + d[2] >> :
                   d \in { e \in DiskOffsets(radius) : InMap(cx + e[1], cy + e[2]) } }

computeVisibility(W, playerId) ==
  Members(
    UNION { addVisibilityRadius({}, k[1], k[2], 3) :
              k \in { t \in DOMAIN W.tiles : W.tiles[t].ownerId = playerId } }
    \cup
    UNION { addVisibilityRadius({}, Round(W.squads[i].x), Round(W.squads[i].y),
                               FOG_OF_WAR_RADIUS) :
              i \in { j \in 1..Len(W.squads) : W.squads[j].ownerId = playerId } })

\* the squads a snapshot with the given visible set shows
ShownSquads(W, playerId, visibleSet) ==
  SelectSeq(W.squads,
            LAMBDA q : q.ownerId = playerId \/ << Round(q.x), Round(q.y) >> \in visibleSet)

\* a snapshot that reports every squad's destination
buildSnapshotWithTargets(W, playerId) ==
  LET visibleSet == computeVisibility(W, playerId)
      shown == ShownSquads(W, playerId, visibleSet)
  IN  [ tick |-> W.tick, phase |-> W.phase,
        myGold |-> GetPlayer(W, playerId).gold \div SCALE,
        myGoldPerSecond |-> GetPlayer(W, playerId).goldPerSecond,
        visibleTiles |-> visibleSet,
        squads |-> Listed([ i \in 1..Len(shown) |->
                     [ id |-> shown[i].id, ownerId |-> shown[i].ownerId,
                       x |-> shown[i].x, y |-> shown[i].y,
                       target |-> shown[i].target,
                       unitCount |-> Len(shown[i].units) ] ]),
        events |-> W.tickEvents ]

\* visibleTiles as the set of the keys of the tiles listed
buildSnapshot(W, playerId) ==
  LET visibleSet == computeVisibility(W, playerId)
      shown == ShownSquads(W, playerId, visibleSet)
  IN  [ tick |-> W.tick, phase |-> W.phase,
        myGold |-> GetPlayer(W, playerId).gold \div SCALE,
        myGoldPerSecond |-> GetPlayer(W, playerId).goldPerSecond,
        visibleTiles |-> visibleSet,
        squads |-> Listed([ i \in 1..Len(shown) |->
                     [ id |-> shown[i].id, ownerId |-> shown[i].ownerId,
                       x |-> shown[i].x, y |-> shown[i].y,
                       target |-> IF shown[i].ownerId = playerId
                                  THEN shown[i].target ELSE << >>,
                       unitCount |-> Len(shown[i].units) ] ]),
        events |-> W.tickEvents ]

\* a broadcast to every contestant that is no bot, connected or not
broadcastStateToHumans(W) ==
  [W EXCEPT !.stateUpdates =
     SelectSeq(Listed([ i \in 1..Len(W.players) |-> W.players[i].id ]),
               LAMBDA id : ~GetPlayer(W, id).isBot)]

broadcastState(W) ==
  [W EXCEPT !.stateUpdates =
     SelectSeq(Listed([ i \in 1..Len(W.players) |-> W.players[i].id ]),
               LAMBDA id : ~GetPlayer(W, id).isBot /\ GetPlayer(W, id).connected)]

\* dt: the clamped delta time in ms; spawnTimeUp, matchTimeUp: what the clock
\* says about the two deadlines; rnd, botCommands: see updateTowers, runBots
tickPhase(W, dt, spawnTimeUp, matchTimeUp, rnd, botCommands) ==
  IF W.phase = "spawn_selection" THEN tickSpawnPhase(W, spawnTimeUp)
  ELSE IF W.phase = "playing" THEN tickGameplay(W, dt, matchTimeUp, rnd, botCommands)
  ELSE W

runTick(W, dt, spawnTimeUp, matchTimeUp, rnd, botCommands) ==
  broadcastState(
    tickPhase([W EXCEPT !.tick = @ + 1, !.tickEvents = << >>, !.processed = << >>],
              dt, spawnTimeUp, matchTimeUp, rnd, botCommands))

\* ---------------------------------------------------- connection, teardown

playerDisconnected(W, playerId) ==
  IF ~HasPlayer(W, playerId) THEN W
  ELSE LET i == PlayerIndex(W, playerId)
           player == W.players[i]
       IN  IF ~player.isBot /\ player.alive
           THEN [W EXCEPT !.players[i].connected = FALSE,
                          !.players[i].isBot = TRUE,
                          !.botAIs = IF \E j \in 1..Len(@) : @[j] = playerId THEN @
                                     ELSE Append(@, playerId)]
           ELSE [W EXCEPT !.players[i].connected = FALSE]

\* a reconnection that also brings the player back to life
playerReconnectedRevived(W, playerId) ==
  IF ~HasPlayer(W, playerId) THEN W
  ELSE LET i == PlayerIndex(W, playerId)
       IN  [W EXCEPT !.players[i].connected = TRUE,
                     !.players[i].isBot = FALSE,
                     !.players[i].alive = TRUE,
                     !.botAIs = SelectSeq(@, LAMBDA b : b # playerId)]

playerReconnected(W, playerId) ==
  IF ~HasPlayer(W, playerId) THEN W
  ELSE LET i == PlayerIndex(W, playerId)
       IN  [W EXCEPT !.players[i].connected = TRUE,
                     !.players[i].isBot = FALSE,
                     !.botAIs = SelectSeq(@, LAMBDA b : b # playerId)]

\* a teardown that leaves the tick timer running
destroyKeepTimer(W) ==
  [W EXCEPT !.squads = << >>,
            !.spatialHash = [ cells |-> EmptyMap, entityCells |-> EmptyMap ],
            !.trainingQueues = << >>,
            !.botAIs = << >>,
            !.pendingCommands = << >>]

destroy(W) ==
  [W EXCEPT !.tickInterval = FALSE,
            !.squads = << >>,
            !.spatialHash = [ cells |-> EmptyMap, entityCells |-> EmptyMap ],
            !.trainingQueues = << >>,
            !.botAIs = << >>,
            !.pendingCommands = << >>]

\* ------------------------------------------------------ the state machine

\* bounds of the environment (MaxTicks and MaxInputs above)
\* the clamped delta times a tick is run with, in ms
DtChoices == { 100, MAX_DT }

VARIABLES
  phase, tick, tickInterval, mapKind, spawnLocations, players, tiles, squads,
  nextSquadId, spatialHash, trainingQueues, rallyPoints, towerCooldowns,
  pendingCommands, playerStats, eliminationCounter, botAIs, supplyCheckCounter,
  tickEvents,
  \* what the callbacks received: the phases announced, the number of
  \* onMatchEnd calls and its result, the receivers of the last snapshots
  phaseChanges, matchEndCalls, matchResult, stateUpdates,
  \* the commands the last tick dispatched, in order
  processed,
  \* the clock against the two deadlines: now >= spawnPhaseEndTime,
  \* now >= matchEndTime
  spawnTimeUp, matchTimeUp,
  \* the match was destroyed and dropped by the GameManager
  destroyed,
  \* what is left of the bounds
  ticksLeft, inputsLeft,
  \* how the clients behave: "free", or the name of a scripted play
  scenario,
  \* a call of MapGenerator.findPath on a map built by hand, and what it
  \* returned
  pathQuery

matchVars ==
  << phase, tick, tickInterval, mapKind, spawnLocations, players, tiles, squads,
     nextSquadId, spatialHash, trainingQueues, rallyPoints, towerCooldowns,
     pendingCommands, playerStats, eliminationCounter, botAIs, supplyCheckCounter,
     tickEvents, phaseChanges, matchEndCalls, matchResult, stateUpdates, processed >>

envVars == << spawnTimeUp, matchTimeUp, destroyed, ticksLeft, inputsLeft, scenario, pathQuery >>

vars == << matchVars, envVars >>

\* the match object in the current state
World ==
  [ phase |-> phase, tick |-> tick, tickInterval |-> tickInterval, mapKind |-> mapKind,
    spawnLocations |-> spawnLocations, players |-> players, tiles |-> tiles,
    squads |-> squads, nextSquadId |-> nextSquadId, spatialHash |-> spatialHash,
    trainingQueues |-> trainingQueues, rallyPoints |-> rallyPoints,
    towerCooldowns |-> towerCooldowns, pendingCommands |-> pendingCommands,
    playerStats |-> playerStats, eliminationCounter |-> eliminationCounter,
    botAIs |-> botAIs, supplyCheckCounter |-> supplyCheckCounter,
    tickEvents |-> tickEvents, phaseChanges |-> phaseChanges,
    matchEndCalls |-> matchEndCalls, matchResult |-> matchResult,
    stateUpdates |-> stateUpdates, processed |-> processed ]

\* the match object in the next state
WorldNext ==
  [ phase |-> phase', tick |-> tick', tickInterval |-> tickInterval', mapKind |-> mapKind',
    spawnLocations |-> spawnLocations', players |-> players', tiles |-> tiles',
    squads |-> squads', nextSquadId |-> nextSquadId', spatialHash |-> spatialHash',
    trainingQueues |-> trainingQueues', rallyPoints |-> rallyPoints',
    towerCooldowns |-> towerCooldowns', pendingCommands |-> pendingCommands',
    playerStats |-> playerStats', eliminationCounter |-> eliminationCounter',
    botAIs |-> botAIs', supplyCheckCounter |-> supplyCheckCounter',
    tickEvents |-> tickEvents', phaseChanges |-> phaseChanges',
    matchEndCalls |-> matchEndCalls', matchResult |-> matchResult',
    stateUpdates |-> stateUpdates', processed |-> processed' ]

\* the match becomes W
Commit(W) ==
  /\ phase' = W.phase
  /\ tick' = W.tick
  /\ tickInterval' = W.tickInterval
  /\ mapKind' = W.mapKind
  /\ spawnLocations' = W.spawnLocations
  /\ players' = W.players
  /\ tiles' = W.tiles
  /\ squads' = W.squads
  /\ nextSquadId' = W.nextSquadId
  /\ spatialHash' = W.spatialHash
  /\ trainingQueues' = W.trainingQueues
  /\ rallyPoints' = W.rallyPoints
  /\ towerCooldowns' = W.towerCooldowns
  /\ pendingCommands' = W.pendingCommands
  /\ playerStats' = W.playerStats
  /\ eliminationCounter' = W.eliminationCounter
  /\ botAIs' = W.botAIs
  /\ supplyCheckCounter' = W.supplyCheckCounter
  /\ tickEvents' = W.tickEvents
  /\ phaseChanges' = W.phaseChanges
  /\ matchEndCalls' = W.matchEndCalls
  /\ matchResult' = W.matchResult
  /\ stateUpdates' = W.stateUpdates
  /\ processed' = W.processed

\* the match is W
IsWorld(W) ==
  /\ phase = W.phase
  /\ tick = W.tick
  /\ tickInterval = W.tickInterval
  /\ mapKind = W.mapKind
  /\ spawnLocations = W.spawnLocations
  /\ players = W.players
  /\ tiles = W.tiles
  /\ squads = W.squads
  /\ nextSquadId = W.nextSquadId
  /\ spatialHash = W.spatialHash
  /\ trainingQueues = W.trainingQueues
  /\ rallyPoints = W.rallyPoints
  /\ towerCooldowns = W.towerCooldowns
  /\ pendingCommands = W.pendingCommands
  /\ playerStats = W.playerStats
  /\ eliminationCounter = W.eliminationCounter
  /\ botAIs = W.botAIs
  /\ supplyCheckCounter = W.supplyCheckCounter
  /\ tickEvents = W.tickEvents
  /\ phaseChanges = W.phaseChanges
  /\ matchEndCalls = W.matchEndCalls
  /\ matchResult = W.matchResult
  /\ stateUpdates = W.stateUpdates
  /\ processed = W.processed

\* A call of findPath: the map (its kind and the tiles carrying a road), the
\* arguments, and, once the call has returned, the result.
PathQuery(kind, roads, startX, startY, endX, endY, maxSteps) ==
  [ kind |-> kind, roads |-> roads, startX |-> startX, startY |-> startY,
    endX |-> endX, endY |-> endY, maxSteps |-> maxSteps,
    returned |-> FALSE, found |-> FALSE, path |-> << >>, steps |-> 0 ]

\* no call is under examination
NoQuery == PathQuery("none", {}, 0, 0, 0, 0, 0)

\* new Match(...) in GameManager.createMatch
Init ==
  /\ IsWorld(NewMatch)
  /\ spawnTimeUp = FALSE
  /\ matchTimeUp = FALSE
  /\ destroyed = FALSE
  /\ ticksLeft = MaxTicks
  /\ inputsLeft = MaxInputs
  /\ scenario = "free"
  /\ pathQuery = NoQuery

HasBots == \E i \in 1..Len(players) : players[i].isBot

\* createMatch: match.addPlayer for the next human of the lobby
AddPlayer ==
  /\ phase = "waiting" /\ ~HasBots
  /\ Len(players) < MaxPlayers
  /\ \E W \in { addPlayer(World, HumanIds[Len(players) + 1]) } : Commit(W)
  /\ UNCHANGED envVars

\* createMatch: match.fillWithBots(targetPlayerCount)
FillWithBots ==
  /\ phase = "waiting" /\ ~HasBots
  /\ \E targetCount \in (Len(players) + 1)..MaxPlayers :
        \E W \in { fillWithBots(World, targetCount) } : Commit(W)
  /\ UNCHANGED envVars

\* GameManager.startMatch, the generator producing one of the maps
StartMatch ==
  /\ phase = "waiting" /\ ~tickInterval
  /\ \E kind \in MapKinds : \E W \in { startMatch(World, kind) } : Commit(W)
  /\ UNCHANGED envVars

\* the clock passes spawnPhaseEndTime
SpawnTimerElapses ==
  /\ phase = "spawn_selection" /\ ~spawnTimeUp
  /\ spawnTimeUp' = TRUE
  /\ UNCHANGED << matchVars, matchTimeUp, destroyed, ticksLeft, inputsLeft, scenario, pathQuery >>

\* the clock passes matchEndTime
MatchTimerElapses ==
  /\ phase = "playing" /\ ~matchTimeUp
  /\ matchTimeUp' = TRUE
  /\ UNCHANGED << matchVars, spawnTimeUp, destroyed, ticksLeft, inputsLeft, scenario, pathQuery >>

\* the capital of the contestant in roster position i, as command coordinates
CapitalOf(i) ==
  IF i <= Len(players) /\ players[i].spawnSelected
  THEN << players[i].capitalX * SCALE, players[i].capitalY * SCALE >>
  ELSE << 63000, 60000 >>

\* What the client of the contestant in roster position i may send: a few
\* commands of each kind, valid and invalid, one of a kind that the phase
\* does not admit, and malformed ones.
CommandMenu(i) ==
  LET other == IF i = 1 THEN 2 ELSE 1
      spawn == { SelectSpawn(63400, 60600), SelectSpawn(60000, 60000),
                 SelectSpawn(61000, 61000), SelectSpawn(61000, 60000) }
      rally == { RallyPoint(CapitalOf(i)[1], CapitalOf(i)[2],
                            CapitalOf(other)[1], CapitalOf(other)[2]) }
      train == { TrainUnit("militia", CapitalOf(i)[1], CapitalOf(i)[2]) }
      move == { MoveSquad(squads[j].id, CapitalOf(i)[1], CapitalOf(i)[2]) :
                  j \in 1..Len(squads) }
      build == { BuildStructure("road", 62000, 60000),
                 BuildStructure("mine_upgrade", 62000, 60000) }
      broken == { NullCommand, BuildStructure("road", NaN, NaN) }
  IN  IF phase = "spawn_selection" THEN spawn \cup train \cup { NullCommand }
      ELSE IF phase = "playing" THEN move \cup build \cup train \cup rally \cup broken
      ELSE train

\* GameManager.handlePlayerCommand: a client's command arrives
QueueCommand ==
  /\ phase # "waiting" /\ ~destroyed
  /\ inputsLeft > 0
  /\ \E i \in 1..Len(players) : \E command \in CommandMenu(i) :
        /\ players[i].id \in { HumanIds[j] : j \in 1..Len(HumanIds) }
        /\ \E W \in { queueCommand(World, players[i].id, command) } : Commit(W)
  /\ inputsLeft' = inputsLeft - 1
  /\ UNCHANGED << spawnTimeUp, matchTimeUp, destroyed, ticksLeft, scenario, pathQuery >>

\* what the update of a bot may return
BotMenu(botId) ==
  LET own == { i \in 1..Len(squads) : squads[i].ownerId = botId }
      me == PlayerIndex(World, botId)
  IN  { TrainUnit("militia", CapitalOf(me)[1], CapitalOf(me)[2]) }
      \cup { MoveSquad(squads[i].id, CapitalOf(me)[1] + 3 * SCALE, CapitalOf(me)[2]) : i \in own }

\* the results of the bots' updates in one tick
BotCommandChoices ==
  { << >> } \cup
  IF phase = "playing" /\ inputsLeft > 0
  THEN UNION { { << [ playerId |-> botAIs[b], command |-> c ] >> : c \in BotMenu(botAIs[b]) } :
                 b \in { j \in 1..Len(botAIs) :
                           HasPlayer(World, botAIs[j]) /\ GetPlayer(World, botAIs[j]).alive } }
  ELSE {}

\* the values Math.random can make a difference with
RandomChoices ==
  IF \E k \in DOMAIN tiles : tiles[k].structureType = "tower" THEN { 0, 1 } ELSE { 0 }

\* the interval timer fires: runTick
Tick ==
  /\ tickInterval
  /\ ticksLeft > 0
  /\ \E dt \in (IF phase = "playing" THEN DtChoices ELSE { MAX_DT }) :
     \E rnd \in RandomChoices :
     \E botCommands \in BotCommandChoices :
        /\ \E W \in { runTick(World, dt, spawnTimeUp, matchTimeUp, rnd, botCommands) } : Commit(W)
        /\ inputsLeft' = inputsLeft - Len(botCommands)
  /\ ticksLeft' = ticksLeft - 1
  /\ UNCHANGED << spawnTimeUp, matchTimeUp, destroyed, scenario, pathQuery >>

\* GameManager.handlePlayerDisconnect
PlayerDisconnected ==
  /\ phase # "waiting" /\ ~destroyed
  /\ \E i \in 1..Len(players) :
        /\ players[i].connected /\ ~players[i].isBot
        /\ \E W \in { playerDisconnected(World, players[i].id) } : Commit(W)
  /\ inputsLeft > 0
  /\ inputsLeft' = inputsLeft - 1
  /\ UNCHANGED << spawnTimeUp, matchTimeUp, destroyed, ticksLeft, scenario, pathQuery >>

\* GameManager.handlePlayerReconnect, which refuses a finished match
PlayerReconnected ==
  /\ phase \notin { "waiting", "finished" } /\ ~destroyed
  /\ \E i \in 1..Len(players) :
        /\ ~players[i].connected
        /\ \E W \in { playerReconnected(World, players[i].id) } : Commit(W)
  /\ UNCHANGED envVars

\* GameManager.destroyMatch, scheduled by handleMatchEnd for a finished
\* match and called by shutdown for a match in any phase
Destroy ==
  /\ phase # "waiting" /\ ~destroyed
  /\ \E W \in { destroy(World) } : Commit(W)
  /\ destroyed' = TRUE
  /\ UNCHANGED << spawnTimeUp, matchTimeUp, ticksLeft, inputsLeft, scenario, pathQuery >>

Next ==
  \/ AddPlayer
  \/ FillWithBots
  \/ StartMatch
  \/ SpawnTimerElapses
  \/ MatchTimerElapses
  \/ QueueCommand
  \/ Tick
  \/ PlayerDisconnected
  \/ PlayerReconnected
  \/ Destroy

Spec == Init /\ [][Next]_vars

\* ------------------------------------------------------- scripted plays

\* In a scripted play two clients follow fixed plans over a long match:
\*   siege   the first contestant reinforces its squad and takes the tile of
\*           the second one's castle; the second one trains a siege ram and
\*           brings it onto that tile
\*   duel    the first contestant walks its starting squad next to the
\*           second one's, and the two squads fight it out
\*   expand  both walk to the same neutral tile, one after the other; the
\*           first contestant moves on to a second tile, takes it and then
\*           orders a militia at its castle
\*   usurp   as in the duel, and the second contestant orders a knight at its
\*           castle before the first one's squad takes the castle's tile
\*   relief  as in the siege, and the first contestant orders a knight at its
\*           own castle once it holds the tile of the second one's castle
\*   spend   the first contestant orders siege rams, the second one builds
\*           around its capital, both as fast as they can send, whether they
\*           can pay or not
Scenarios == { "siege", "duel", "expand", "spend", "skirmish", "usurp", "relief" }
\* ticks taken in one scripted play
PlayTicks == 130
\* ticks a scripted play spends in the spawn phase at most
MaxSpawnTicks == 2
\* the delta time of the ticks of a scripted play, in ms
PlayDt == MAX_DT
\* the size at which the first contestant's squad sets out in the siege
SiegeStrength == 10

\* index of the first squad of the contestant, 0 when it has none
SquadOf(id) ==
  IF \E i \in 1..Len(squads) : squads[i].ownerId = id
  THEN CHOOSE i \in 1..Len(squads) :
         squads[i].ownerId = id /\ \A j \in 1..(i - 1) : squads[j].ownerId # id
  ELSE 0

OnTile(i, t) == Round(squads[i].x) = t[1] /\ Round(squads[i].y) = t[2]

HasRam(i) == \E k \in 1..Len(squads[i].units) : squads[i].units[k].type = "siege_ram"

\* orders waiting in the training queue of the building on tile t
Queued(t) ==
  LET qi == QueueIndex(World, t)
  IN  IF qi = 0 THEN 0 ELSE Len(trainingQueues[qi].queue)

\* the neutral tile both contestants walk to in the play "expand", and the
\* one the first contestant moves on to
ExpandFirst == << 60, 63 >>
ExpandSecond == << 60, 65 >>

\* what the second contestant builds in the play "spend", in this order: the
\* structure and the offset of its tile from the capital
BuildPlan ==
  << << "barracks", 1, 0 >>, << "tower", -1, -1 >>, << "wall", 1, 1 >>,
     << "tower", 1, -1 >>, << "barracks", 0, 1 >> >>

\* where the starting squads withdraw to in the play "skirmish", by roster
\* position, and the tile on which the first contestant's recruit then meets
\* the second contestant's
Retreat == << << 56, 65 >>, << 67, 65 >> >>
Meet == << 62, 61 >>
\* the offset from its capital of the tile the second contestant walls once
\* the recruits have fought, and then sends its starting squad to
Outpost == << 2, -2 >>

\* index of the squad of one unit of the contestant, 0 when it has none
LoneSquadOf(id) ==
  IF \E i \in 1..Len(squads) : squads[i].ownerId = id /\ Len(squads[i].units) = 1
  THEN CHOOSE i \in 1..Len(squads) :
         /\ squads[i].ownerId = id /\ Len(squads[i].units) = 1
         /\ \A j \in 1..(i - 1) : ~(squads[j].ownerId = id /\ Len(squads[j].units) = 1)
  ELSE 0

\* what the client of the contestant in roster position i sends before the
\* next tick: no command or one
Wish(i) ==
  IF Len(players) < 2 \/ i > 2 \/ ~players[i].alive THEN {}
  ELSE IF phase = "spawn_selection"
       THEN IF i = 1 /\ ~players[1].spawnSelected
            THEN { SelectSpawn(60000, 60000) } ELSE {}
  ELSE IF phase # "playing" THEN {}
  ELSE
    LET me == players[i].id
        first == players[1].id
        second == players[2].id
        s == SquadOf(me)
        home == << players[i].capitalX, players[i].capitalY >>
        keep == << players[2].capitalX, players[2].capitalY >>
        move(t) == { MoveSquad(squads[s].id, t[1] * SCALE, t[2] * SCALE) }
        train(type) == { TrainUnit(type, home[1] * SCALE, home[2] * SCALE) }
    IN  IF scenario \in { "siege", "relief" } /\ i = 1
        THEN IF s = 0 THEN {}
             ELSE IF Len(squads[s].units) >= SiegeStrength /\ ~OnTile(s, keep) THEN move(keep)
             ELSE IF /\ scenario = "relief"
                     /\ TileAt(tiles, keep[1], keep[2]).ownerId = first
                     /\ Queued(home) = 0
                     /\ players[i].gold >= UNIT_STATS["siege_ram"].cost * SCALE
                  THEN train("knight")
             ELSE IF /\ TileAt(tiles, keep[1], keep[2]).ownerId = second
                     /\ Len(squads[s].units) + Queued(home) < SiegeStrength
                     /\ Queued(home) < MAX_QUEUE
                     /\ players[i].gold >= UNIT_STATS["militia"].cost * SCALE
                  THEN train("militia")
             ELSE {}
        ELSE IF scenario \in { "siege", "relief" } /\ i = 2
        THEN IF s # 0 /\ HasRam(s) /\ TileAt(tiles, keep[1], keep[2]).ownerId = first
                /\ ~OnTile(s, keep)
             THEN move(keep)
             ELSE IF /\ TileAt(tiles, keep[1], keep[2]).ownerId = second
                     /\ (s = 0 \/ ~HasRam(s))
                     /\ Queued(home) = 0
                     /\ players[i].gold >= UNIT_STATS["siege_ram"].cost * SCALE
                  THEN train("siege_ram")
             ELSE {}
        ELSE IF scenario \in { "duel", "usurp" } /\ i = 1
        THEN IF s # 0 /\ ~OnTile(s, keep) THEN move(keep) ELSE {}
        ELSE IF scenario = "usurp" /\ i = 2
        THEN IF /\ TileAt(tiles, home[1], home[2]).ownerId = second
                /\ Queued(home) = 0
                /\ players[i].gold >= STARTING_GOLD * SCALE
             THEN train("knight") ELSE {}
        ELSE IF scenario = "expand" /\ i = 1
        THEN IF s = 0 THEN {}
             ELSE IF /\ OnTile(s, ExpandSecond) /\ squads[s].path = << >>
                     /\ TileAt(tiles, ExpandSecond[1], ExpandSecond[2]).ownerId = first
                     /\ Len(squads[s].units) = 5 /\ Queued(home) = 0
                  THEN train("militia")
             ELSE IF \/ TileAt(tiles, ExpandFirst[1], ExpandFirst[2]).captureProgress
                          >= 24 * SCALE
                     \/ TileAt(tiles, ExpandFirst[1], ExpandFirst[2] + 1).capturingPlayerId = first
                     \/ TileAt(tiles, ExpandSecond[1], ExpandSecond[2]).capturingPlayerId = first
                     \/ TileAt(tiles, ExpandSecond[1], ExpandSecond[2]).ownerId = first
                  THEN IF OnTile(s, ExpandSecond) THEN {} ELSE move(ExpandSecond)
             ELSE IF OnTile(s, ExpandFirst) THEN {} ELSE move(ExpandFirst)
        ELSE IF scenario = "expand" /\ i = 2
        THEN IF s # 0 /\ ~OnTile(s, ExpandFirst)
                /\ TileAt(tiles, ExpandFirst[1], ExpandFirst[2]).ownerId # second
             THEN move(ExpandFirst) ELSE {}
        ELSE IF scenario = "spend" /\ i = 1
        THEN IF Queued(home) < MAX_QUEUE THEN train("siege_ram") ELSE {}
        ELSE IF scenario = "spend" /\ i = 2
        THEN LET todo == { n \in 1..Len(BuildPlan) :
                             TileAt(tiles, home[1] + BuildPlan[n][2],
                                    home[2] + BuildPlan[n][3]).structureType = NoStructure }
             IN  IF todo = {} THEN {}
                 ELSE LET n == CHOOSE n \in todo : \A m \in todo : n <= m
                      IN  { BuildStructure(BuildPlan[n][1],
                                           (home[1] + BuildPlan[n][2]) * SCALE,
                                           (home[2] + BuildPlan[n][3]) * SCALE) }
        ELSE IF scenario = "skirmish"
        THEN LET lone == LoneSquadOf(me)
                 mine == { k \in 1..Len(squads) : squads[k].ownerId = me }
                 walled == << home[1] + Outpost[1], home[2] + Outpost[2] >>
             IN  IF s = 0 THEN {}
                 ELSE IF i = 2 /\ TileAt(tiles, walled[1], walled[2]).structureType = "wall"
                      THEN IF ~OnTile(s, walled) /\ squads[s].path = << >>
                           THEN move(walled) ELSE {}
                 ELSE IF Len(squads[s].units) > 1 /\ ~OnTile(s, Retreat[i])
                         /\ squads[s].path = << >>
                      THEN move(Retreat[i])
                 ELSE IF /\ Cardinality(mine) = 1 /\ Queued(home) = 0
                         /\ playerStats[me].unitsLost = 0
                      THEN train("militia")
                 ELSE IF i = 1 /\ lone # 0 /\ ~OnTile(lone, Meet) /\ squads[lone].path = << >>
                      THEN { MoveSquad(squads[lone].id, Meet[1] * SCALE, Meet[2] * SCALE) }
                 ELSE IF /\ i = 2 /\ playerStats[me].unitsLost > 0
                         /\ TileAt(tiles, home[1] + Outpost[1], home[2] + Outpost[2]).structureType
                              = NoStructure
                      THEN { BuildStructure("wall", (home[1] + Outpost[1]) * SCALE,
                                            (home[2] + Outpost[2]) * SCALE) }
                 ELSE {}
        ELSE {}

\* the contestant in roster position i has a command to send and none pending
Unsent(i) ==
  /\ i <= Len(players)
  /\ Wish(i) # {}
  /\ \A k \in 1..Len(pendingCommands) : pendingCommands[k].playerId # players[i].id

\* GameManager.handlePlayerCommand: the next client sends its command
ClientSends ==
  /\ ~destroyed
  /\ \E i \in 1..2 :
        /\ Unsent(i)
        /\ \A j \in 1..(i - 1) : ~Unsent(j)
        /\ \E command \in Wish(i) :
              \E W \in { queueCommand(World, players[i].id, command) } : Commit(W)
  /\ UNCHANGED envVars

\* the interval timer fires once the clients have sent their commands
TickPlay ==
  /\ tickInterval
  /\ ticksLeft > 0
  /\ \A i \in 1..2 : ~Unsent(i)
  /\ phase = "spawn_selection" => tick < MaxSpawnTicks
  /\ \E W \in { runTick(World, PlayDt, spawnTimeUp, matchTimeUp, 0, << >>) } : Commit(W)
  /\ ticksLeft' = ticksLeft - 1
  /\ UNCHANGED << spawnTimeUp, matchTimeUp, destroyed, inputsLeft, scenario, pathQuery >>

InitPlay ==
  /\ IsWorld(NewMatch)
  /\ spawnTimeUp = FALSE
  /\ matchTimeUp = FALSE
  /\ destroyed = FALSE
  /\ ticksLeft = PlayTicks
  /\ inputsLeft = 0
  /\ scenario \in Scenarios
  /\ pathQuery = NoQuery

NextPlay ==
  \/ AddPlayer
  \/ StartMatch
  \/ SpawnTimerElapses
  \/ MatchTimerElapses
  \/ ClientSends
  \/ TickPlay

SpecPlay == InitPlay /\ [][NextPlay]_vars

\* ------------------------------------------------- findPath on its own

\* The calls examined: on the map of only plains ("meadow"), from two tiles
\* to every tile of a window around them, with a budget that suffices and
\* one that does not; on the map "open", around the mountain, forest and
\* water tiles next to (60, 60), to and from a mountain included; and on the
\* plains with a road, from the tile above the road's near end to the tiles
\* along it.
PathWindow == 4
\* a road laid on the plains one row below the row of the start, and up to
\* that row at its far end
RoadLoop == { << x, 11 >> : x \in 10..15 } \cup { << 15, 10 >> }
SmallBudget == 5
PathStarts == { << 10, 10 >>, << 12, 9 >> }
PathQueries ==
  { PathQuery("meadow", {}, s[1], s[2], e[1], e[2], m) :
      s \in PathStarts,
      e \in ((10 - PathWindow)..(10 + PathWindow)) \X ((10 - PathWindow)..(10 + PathWindow)),
      m \in { SmallBudget, MOVE_PATH_STEPS } }
  \cup
  { PathQuery("open", {}, s[1], s[2], e[1], e[2], MOVE_PATH_STEPS) :
      s \in { << 60, 60 >>, << 61, 61 >> },
      e \in (58..62) \X (58..62) }
  \cup
  { PathQuery("meadow", RoadLoop, 10, 10, e[1], e[2], MOVE_PATH_STEPS) :
      e \in (11..15) \X (10..11) }

\* the tiles of the map of a query
QueryTiles(q) ==
  Table([ k \in q.roads |-> [DefaultTile EXCEPT !.structureType = "road"] ])

InitPath ==
  /\ IsWorld(NewMatch)
  /\ spawnTimeUp = FALSE
  /\ matchTimeUp = FALSE
  /\ destroyed = FALSE
  /\ ticksLeft = 0
  /\ inputsLeft = 0
  /\ scenario = "free"
  /\ pathQuery \in PathQueries

\* MapGenerator.findPath(map, startX, startY, endX, endY, maxSteps)
FindPath ==
  /\ ~pathQuery.returned
  /\ LET r == findPath(pathQuery.kind, QueryTiles(pathQuery), pathQuery.startX,
                       pathQuery.startY, pathQuery.endX, pathQuery.endY, pathQuery.maxSteps)
     IN  pathQuery' = [pathQuery EXCEPT !.returned = TRUE, !.found = r.found,
                                        !.path = r.path, !.steps = r.steps]
  /\ UNCHANGED << matchVars, spawnTimeUp, matchTimeUp, destroyed, ticksLeft, inputsLeft,
                  scenario >>

NextPath == FindPath

SpecPath == InitPath /\ [][NextPath]_vars

\* --------------------------------------------- the spatial hash on its own

\* The calls made on a SpatialHash that starts empty: three ids, and
\* positions in three cells, two of them in the same cell and two on either
\* side of a cell border.
HashIds == { 1, 2, 3 }
HashPositions == { << 1000, 2000 >>, << 7900, 2000 >>, << 8000, 2000 >>, << 17000, 9000 >> }
HashEntriesIn ==
  { [ id |-> id, x |-> p[1], y |-> p[2], ownerId |-> "p1" ] : id \in HashIds, p \in HashPositions }

InitHash ==
  /\ IsWorld(NewMatch)
  /\ spawnTimeUp = FALSE
  /\ matchTimeUp = FALSE
  /\ destroyed = FALSE
  /\ ticksLeft = 0
  /\ inputsLeft = 0
  /\ scenario = "free"
  /\ pathQuery = NoQuery

HashFrame ==
  UNCHANGED << phase, tick, tickInterval, mapKind, spawnLocations, players, tiles, squads,
               nextSquadId, trainingQueues, rallyPoints, towerCooldowns, pendingCommands,
               playerStats, eliminationCounter, botAIs, supplyCheckCounter, tickEvents,
               phaseChanges, matchEndCalls, matchResult, stateUpdates, processed, envVars >>

\* spatialHash.insertOrUpdate(entry)
HashInsertOrUpdate ==
  /\ \E entry \in HashEntriesIn : spatialHash' = hashInsertOrUpdate(spatialHash, entry)
  /\ HashFrame

\* spatialHash.remove(id)
HashRemove ==
  /\ \E id \in HashIds : spatialHash' = hashRemove(spatialHash, id)
  /\ HashFrame

NextHash ==
  \/ HashInsertOrUpdate
  \/ HashRemove

SpecHash == InitHash /\ [][NextHash]_vars

TypeOK == phase \in { "waiting", "spawn_selection", "playing", "finished" }

\* ------------------------------------------------------------- properties

\* the interval timer fired in this step
TickStep == tick' = tick + 1

\* contestants of the roster marked alive
Living(ps) == { i \in 1..Len(ps) : ps[i].alive }

\* C1: the phase only advances along waiting -> spawn_selection -> playing
\* -> finished, one phase at a time: no step moves it backwards or skips a
\* phase, and no step leaves finished.
C1_PhaseOrder ==
  [][ \/ phase' = phase
      \/ phase = "waiting" /\ phase' = "spawn_selection"
      \/ phase = "spawn_selection" /\ phase' = "playing"
      \/ phase = "playing" /\ phase' = "finished" ]_vars

\* a finished match without bots that went through every phase and had a
\* command queued after it finished (the last tick drained the earlier ones)
C1_Witness ==
  /\ phase = "finished"
  /\ phaseChanges = << "spawn_selection", "playing", "finished" >>
  /\ \A i \in 1..Len(players) : ~players[i].isBot
  /\ pendingCommands # << >>

\* C2: the phase leaves spawn_selection in exactly the first tick in which,
\* once the tick's commands are processed, every living non-bot contestant has
\* selected a spawn or the spawn timer has elapsed; no other step leaves it;
\* when playing is entered every living contestant has a capital, so every
\* contestant left without one is not alive.
C2_SpawnPhaseEnds ==
  [][ phase = "spawn_selection" =>
        LET after == processCommands(World).players
            ready == \/ spawnTimeUp
                     \/ \A i \in 1..Len(after) :
                           (after[i].alive /\ ~after[i].isBot) => after[i].spawnSelected
        IN  /\ TickStep => (phase' = "playing" <=> ready)
            /\ ~TickStep => phase' = "spawn_selection"
            /\ phase' = "playing" =>
                  \A i \in 1..Len(players') : players'[i].alive => players'[i].spawnSelected
    ]_vars

\* playing was entered before the timer elapsed, after a tick that stayed in
\* the spawn phase, with a client that selected its spawn
C2_Witness ==
  /\ phase = "playing" /\ ~spawnTimeUp /\ tick >= 2
  /\ \E i \in 1..Len(players) :
        ~players[i].isBot /\ players[i].alive /\ players[i].spawnSelected

\* C3: a tick of the playing phase ends in finished exactly when its end check
\* sees the match timer expired or at most one contestant alive; the phase
\* becomes finished in no other step; onMatchEnd is called with the standings
\* of every contestant at that step, and never before or again.
C3_MatchEnds ==
  [][ /\ (phase = "playing" /\ TickStep) =>
            (phase' = "finished" <=> (matchTimeUp \/ Cardinality(Living(players')) <= 1))
      /\ (phase # "finished" /\ phase' = "finished") =>
            /\ phase = "playing" /\ TickStep
            /\ matchEndCalls' = 1
            /\ { matchResult'.scores[k].playerId : k \in 1..Len(matchResult'.scores) }
                 = { players'[i].id : i \in 1..Len(players') }
            /\ Len(matchResult'.scores) = Len(players')
      /\ phase' # "finished" => matchEndCalls' = 0
      /\ phase = "finished" => (matchEndCalls' = matchEndCalls /\ matchResult' = matchResult)
    ]_vars

\* a match ended by the timer with several contestants alive
C3_Witness ==
  /\ phase = "finished" /\ matchEndCalls = 1 /\ matchTimeUp
  /\ Cardinality(Living(players)) >= 2

\* C4: a step that queues a command appends one entry, stamped with the
\* current tick, to the pending commands and changes nothing else of the
\* match; a tick of the spawn or playing phase dispatches all the commands
\* that were pending, in the order they arrived, and leaves pending only
\* commands queued during that tick.
C4_CommandBuffer ==
  [][ /\ (~TickStep /\ Len(pendingCommands') > Len(pendingCommands)) =>
            /\ Len(pendingCommands') = Len(pendingCommands) + 1
            /\ SubSeq(pendingCommands', 1, Len(pendingCommands)) = pendingCommands
            /\ pendingCommands'[Len(pendingCommands')].tick = tick
            /\ UNCHANGED << phase, tick, tickInterval, mapKind, spawnLocations, players,
                            tiles, squads, nextSquadId, spatialHash, trainingQueues,
                            rallyPoints, towerCooldowns, playerStats, eliminationCounter,
                            botAIs, supplyCheckCounter, tickEvents, phaseChanges,
                            matchEndCalls, matchResult, stateUpdates, processed >>
      /\ (TickStep /\ phase \in { "spawn_selection", "playing" }) =>
            /\ processed' = pendingCommands
            /\ \A k \in 1..Len(pendingCommands') : pendingCommands'[k].tick = tick'
    ]_vars

\* a tick dispatched two different commands, the older one first
C4_Witness ==
  /\ Len(processed) = 2
  /\ processed[1].command # processed[2].command
  /\ processed[1].tick <= processed[2].tick

\* tiles and commands the command handlers are probed with in every state
ProbeTiles ==
  { << 60, 60 >>, << 62, 60 >>, << 60, 62 >>, << 63, 61 >>, << 70, 70 >> }
    \cup { << players[i].capitalX, players[i].capitalY >> : i \in 1..Len(players) }

ProbeCommands ==
  { SelectSpawn(60000, 60000), SelectSpawn(63400, 60600), SelectSpawn(61000, 61000) }
    \cup { MoveSquad(squads[j].id, 62000, 60000) : j \in 1..Len(squads) }
    \cup { MoveSquad(0, 62000, 60000) }
    \cup { BuildStructure(s, t[1] * SCALE, t[2] * SCALE) : s \in StructureTypes, t \in ProbeTiles }
    \cup { TrainUnit(u, t[1] * SCALE, t[2] * SCALE) : u \in { "militia", "siege_ram" },
                                                      t \in ProbeTiles }
    \cup { RallyPoint(t[1] * SCALE, t[2] * SCALE, 60000, 60000) : t \in ProbeTiles }

\* the command c of contestant id violates one of the preconditions of its
\* kind: wrong phase, spawn already selected, invalid spawn site, squad or
\* tile not owned, tile disconnected, wrong terrain or building kind,
\* structure already present (a mine upgrade over a mine upgrade is none),
\* insufficient gold, training queue full
ViolatesPrecondition(id, c) ==
  LET x == Round(c.x)
      y == Round(c.y)
      tile == TileAt(tiles, x, y)
      terrain == Terrain(mapKind, x, y)
      me == GetPlayer(World, id)
      taken == { << players[i].capitalX, players[i].capitalY >> :
                   i \in { j \in 1..Len(players) : players[j].spawnSelected } }
  IN  IF c.type = "select_spawn"
      THEN phase # "spawn_selection" \/ me.spawnSelected \/ ~isValidSpawn(mapKind, x, y, taken)
      ELSE IF c.type = "move_squad"
      THEN \/ phase # "playing"
           \/ ~HasSquad(World, c.squadId)
           \/ squads[SquadIndex(World, c.squadId)].ownerId # id
      ELSE IF c.type = "build_structure"
      THEN \/ phase # "playing"
           \/ ~InMap(x, y) \/ tile.ownerId # id \/ ~tile.connected
           \/ terrain \in { "mountain", "water" }
           \/ (c.structureType = "mine_upgrade" /\ terrain # "mine")
           \/ c.structureType = "castle"
           \/ (tile.structureType # NoStructure
               /\ ~(c.structureType = "mine_upgrade" /\ tile.structureType = "mine_upgrade"))
           \/ me.gold < BUILDING_COSTS[c.structureType] * SCALE
      ELSE IF c.type = "train_unit"
      THEN \/ phase # "playing"
           \/ ~InMap(x, y) \/ tile.ownerId # id \/ ~tile.connected
           \/ tile.structureType \notin { "castle", "barracks" }
           \/ me.gold < UNIT_STATS[c.unitType].cost * SCALE
           \/ (QueueIndex(World, << x, y >>) # 0
               /\ Len(trainingQueues[QueueIndex(World, << x, y >>)].queue) >= MAX_QUEUE)
      ELSE ~InMap(x, y) \/ tile.ownerId # id

\* C5: in every state, a command of any of the five kinds that violates a
\* precondition of its kind is processed without any change of the match.
C5_SilentRejection ==
  \A i \in 1..Len(players) : \A c \in ProbeCommands :
     ViolatesPrecondition(players[i].id, c) => handleCommand(World, players[i].id, c) = World

\* C6: in a tick in which the castle on a contestant's capital is destroyed,
\* that contestant ends the tick not alive, without squads and without tiles,
\* and every contestant who stops being alive in a tick of the playing phase
\* has had the castle on its own capital destroyed in that tick.
C6_CastleFall ==
  [][ TickStep =>
        \A i \in 1..Len(players) :
           LET fell == /\ players[i].spawnSelected
                       /\ TileAt(tiles, players[i].capitalX, players[i].capitalY).structureType
                            = "castle"
                       /\ \E e \in 1..Len(tickEvents') :
                             /\ tickEvents'[e].type = "structure_destroyed"
                             /\ tickEvents'[e].x = players[i].capitalX
                             /\ tickEvents'[e].y = players[i].capitalY
           IN  /\ fell =>
                    /\ ~players'[i].alive
                    /\ \A j \in 1..Len(squads') : squads'[j].ownerId # players[i].id
                    /\ \A k \in DOMAIN tiles' : tiles'[k].ownerId # players[i].id
               /\ (phase = "playing" /\ players[i].alive /\ ~players'[i].alive) => fell
    ]_vars

\* C7: no state holds a squad without units.
C7_NoEmptySquad == \A i \in 1..Len(squads) : Len(squads[i].units) > 0

\* C8: the capture progress of every tile is between 0 and CAPTURE_THRESHOLD.
C8_ProgressInRange ==
  \A k \in DOMAIN tiles :
     tiles[k].captureProgress >= 0 /\ tiles[k].captureProgress <= CAPTURE_THRESHOLD * SCALE

\* a contested capture went down to 0 and passed to the second contestant,
\* who is now capturing the tile, while the first one has captured another
C8_Witness ==
  /\ Len(players) = 2
  /\ TileAt(tiles, ExpandFirst[1], ExpandFirst[2]).capturingPlayerId = players[2].id
  /\ TileAt(tiles, ExpandFirst[1], ExpandFirst[2]).captureProgress > 0
  /\ TileAt(tiles, ExpandFirst[1], ExpandFirst[2]).captureProgress < CAPTURE_THRESHOLD * SCALE
  /\ TileAt(tiles, ExpandSecond[1], ExpandSecond[2]).ownerId = players[1].id

\* the owner of tile k before and after the step
OwnerChanges(k) == TileAt(tiles, k[1], k[2]).ownerId # TileAt(tiles', k[1], k[2]).ownerId

\* C9 as stated: a tile whose owner differs between the start and the end of a
\* tick has capture progress CAPTURE_THRESHOLD at the end of that tick.
C9_OwnerChangeAtThreshold ==
  [][ TickStep =>
        \A k \in DOMAIN tiles \cup DOMAIN tiles' :
           OwnerChanges(k) =>
              TileAt(tiles', k[1], k[2]).captureProgress = CAPTURE_THRESHOLD * SCALE ]_vars

\* C9, amended: a tile whose owner differs between the start and the end of a
\* step either has a contestant as its new owner and capture progress
\* CAPTURE_THRESHOLD, or has lost its owner because that contestant was
\* eliminated in the step and is unowned, its capture progress restarted from
\* 0: at most what one tick of capture adds.
C9_OwnerChange ==
  [][ \A k \in DOMAIN tiles \cup DOMAIN tiles' :
         OwnerChanges(k) =>
            IF TileAt(tiles', k[1], k[2]).ownerId # NoOne
            THEN TileAt(tiles', k[1], k[2]).captureProgress = CAPTURE_THRESHOLD * SCALE
            ELSE /\ TickStep
                 /\ \E i \in 1..Len(players) :
                       /\ players[i].id = TileAt(tiles, k[1], k[2]).ownerId
                       /\ players[i].alive /\ ~players'[i].alive
                 /\ TileAt(tiles', k[1], k[2]).captureProgress <= CAPTURE_RATE * MAX_DT * 5
    ]_vars

\* a contestant was eliminated after tiles had been captured
C9_Witness ==
  /\ eliminationCounter > 0
  /\ \E id \in DOMAIN playerStats : playerStats[id].territoryCaptured > 0

\* Chebyshev distance of two tiles
Chebyshev(a, b) == Max2(Abs(a[1] - b[1]), Abs(a[2] - b[2]))

C11_GoldNonNegative == \A i \in 1..Len(players) : players[i].gold >= 0

\* the last tick processed a train order of a contestant who cannot pay it
\* and whose building holds nothing but one order paid in an earlier tick
C11_Witness ==
  \E k \in 1..Len(processed) :
     LET c == processed[k].command
         p == GetPlayer(World, processed[k].playerId)
         qi == QueueIndex(World, << Round(c.x), Round(c.y) >>)
     IN  /\ c.type = "train_unit"
         /\ p.gold < UNIT_STATS[c.unitType].cost * SCALE
         /\ qi # 0
         /\ Len(trainingQueues[qi].queue) = 1
         /\ trainingQueues[qi].queue[1].remainingTime
              < UNIT_STATS[c.unitType].trainTime * 1000 - PlayDt

\* the squared distance of (x1, y1) and (x2, y2) is at most r squared, all
\* in thousandths (computed only where the squares stay small)
Within(x1, y1, x2, y2, r) ==
  /\ Abs(x1 - x2) <= r
  /\ Abs(y1 - y2) <= r
  /\ distanceSq(x1, y1, x2, y2) <= r * r

\* the tower on tile k is due: connected, owned, its cooldown window elapsed
\* at the tick that is being run
TowerDue(k) ==
  /\ tiles[k].structureType = "tower"
  /\ tiles[k].ownerId # NoOne
  /\ tiles[k].connected
  /\ tick' - (IF k \in DOMAIN towerCooldowns THEN towerCooldowns[k] ELSE 0)
       >= TICK_RATE \div TOWER_FIRE_RATE

\* squad j is a non-empty squad of an enemy of the tower on tile k within the
\* tower's range, and stays where it is, non-empty, through the step
StandingTarget(k, j) ==
  /\ squads[j].ownerId # tiles[k].ownerId
  /\ Len(squads[j].units) > 0
  /\ Within(squads[j].x, squads[j].y, k[1] * SCALE, k[2] * SCALE, TOWER_RANGE * SCALE)
  /\ \E i \in 1..Len(squads') :
        /\ squads'[i].id = squads[j].id
        /\ squads'[i].x = squads[j].x /\ squads'[i].y = squads[j].y

\* C12: in a tick of the playing phase every tower that is due and has a
\* non-empty enemy squad standing within its range fires: the tick emits a
\* tower_fire event for it and restarts its cooldown window.
C12_TowerFires ==
  [][ (TickStep /\ phase = "playing") =>
        \A k \in DOMAIN tiles :
           (TowerDue(k) /\ \E j \in 1..Len(squads) : StandingTarget(k, j)) =>
              /\ \E e \in 1..Len(tickEvents') :
                    /\ tickEvents'[e].type = "tower_fire"
                    /\ tickEvents'[e].x = k[1] /\ tickEvents'[e].y = k[2]
              /\ k \in DOMAIN towerCooldowns' /\ towerCooldowns'[k] = tick'
    ]_vars

\* the entries of the spatial hash
HashEntries ==
  UNION { { spatialHash.cells[c][n] : n \in 1..Len(spatialHash.cells[c]) } :
            c \in DOMAIN spatialHash.cells }

\* the radii findNearestEnemy is probed with: the tower range, the cell size,
\* the default cap
ProbeRadii == { TOWER_RANGE * SCALE, SPATIAL_HASH_CELL_SIZE * SCALE, 30 * SCALE }

\* C13: in every state, for the position and owner of every entry of the
\* spatial hash and every probed cap, findNearestEnemy finds an entry exactly
\* when an entry of another owner lies within the cap, and the entry found is
\* one of those at the least distance.
C13_NearestEnemy ==
  \A a \in HashEntries : \A r \in ProbeRadii :
     LET others == { e \in HashEntries : e.ownerId # a.ownerId /\ Within(e.x, e.y, a.x, a.y, r) }
         res == findNearestEnemy(spatialHash, a.x, a.y, a.ownerId, r)
     IN  /\ res.found <=> others # {}
         /\ res.found =>
               /\ res.entry \in others
               /\ \A o \in others :
                     distanceSq(res.entry.x, res.entry.y, a.x, a.y)
                       <= distanceSq(o.x, o.y, a.x, a.y)

\* the hit points of the units of the contestant's squads that have a unit
Forces(id) ==
  LET own == SelectSeq(squads, LAMBDA q : q.ownerId = id /\ Len(q.units) > 0)
  IN  Listed([ k \in 1..Len(own) |->
                 Listed([ u \in 1..Len(own[k].units) |-> own[k].units[u].hp ]) ])

\* the two squads of one unit stand within reach of each other
LoneFight ==
  /\ Len(players) = 2
  /\ LoneSquadOf(players[1].id) # 0 /\ LoneSquadOf(players[2].id) # 0
  /\ Within(squads[LoneSquadOf(players[1].id)].x, squads[LoneSquadOf(players[1].id)].y,
            squads[LoneSquadOf(players[2].id)].x, squads[LoneSquadOf(players[2].id)].y,
            1500)

\* C14: combat is resolved simultaneously. In the plays in which the two
\* sides bring equal forces against each other (five militia each in "duel",
\* one militia each in "skirmish") the surviving units of the two sides have
\* the same hit points after every tick, so the two sides lose their units
\* in the same ticks; and two squads of one militia each that stand within
\* reach both lose UNIT_STATS.militia.damage * dt hit points in a tick or
\* both lose their unit in it.
C14_Simultaneous ==
  /\ []((scenario \in { "duel", "skirmish" } /\ phase \in { "playing", "finished" }
         /\ Len(players) = 2 /\ \A i \in 1..2 : players[i].spawnSelected)
        => Forces(players[1].id) = Forces(players[2].id))
  /\ [][(TickStep /\ scenario = "skirmish" /\ phase = "playing" /\ LoneFight)
        => LET hp == Forces(players[1].id)[2][1]
               left == hp - UNIT_STATS["militia"].damage * PlayDt
           IN  /\ Len(Forces(players[1].id)) = 2
               /\ Forces(players[1].id)' = Forces(players[2].id)'
               /\ IF left > 0
                  THEN Forces(players[1].id)' = << Forces(players[1].id)[1], << left >> >>
                  ELSE Forces(players[1].id)' = << Forces(players[1].id)[1] >>]_vars

\* both recruits of the skirmish have fallen, in the same tick, each after
\* killing the other
C14_Witness ==
  /\ scenario = "skirmish" /\ phase = "playing" /\ Len(players) = 2
  /\ playerStats[players[1].id].unitsLost = 1 /\ playerStats[players[2].id].unitsLost = 1
  /\ playerStats[players[1].id].unitsKilled = 1 /\ playerStats[players[2].id].unitsKilled = 1
  /\ Forces(players[1].id) = Forces(players[2].id)
  /\ Len(Forces(players[1].id)) = 1

\* the tiles reached from the tiles in the queue by steps to a 4-neighbour
\* in own, one tile of the queue at a time
RECURSIVE Reached(_, _, _)
Reached(own, queue, visited) ==
  IF queue = << >> THEN visited
  ELSE LET c == Head(queue)
           nb == { k \in own \ visited : Abs(k[1] - c[1]) + Abs(k[2] - c[2]) = 1 }
       IN  Reached(own, Tail(queue) \o SortTiles(nb), visited \cup nb)

\* tile k is owned by a living contestant who holds the capital tile and is
\* joined to that capital through the contestant's tiles that are no mountain
SupplyLinked(kind, ts, ps, k) ==
  \E i \in 1..Len(ps) :
    /\ ps[i].alive /\ ps[i].spawnSelected
    /\ TileAt(ts, k[1], k[2]).ownerId = ps[i].id
    /\ InMap(ps[i].capitalX, ps[i].capitalY)
    /\ TileAt(ts, ps[i].capitalX, ps[i].capitalY).ownerId = ps[i].id
    /\ k \in Reached({ t \in DOMAIN ts : ts[t].ownerId = ps[i].id
                                          /\ Terrain(kind, t[1], t[2]) # "mountain" },
                      << << ps[i].capitalX, ps[i].capitalY >> >>,
                      { << ps[i].capitalX, ps[i].capitalY >> })

\* the connected flags of the tiles are those of the supply lines
FlagsMatch(kind, ts, ps) ==
  \A k \in DOMAIN ts : ts[k].connected <=> SupplyLinked(kind, ts, ps, k)

\* the world with the connected flag of every tile it records set to b
Flagged(W, b) ==
  [W EXCEPT !.tiles = Table([ k \in DOMAIN W.tiles |-> [W.tiles[k] EXCEPT !.connected = b] ])]

\* C15: right after a supply-line recomputation a tile is flagged connected
\* exactly if its owner is alive, holds the capital tile, and the tile is
\* joined to the capital by 4-neighbour steps over the owner's non-mountain
\* tiles; the result does not depend on the flags before, and recomputing
\* again changes nothing. Checked for the recomputation applied to every
\* reachable state and for the state every fifth tick leaves behind.
C15_SupplyLines ==
  /\ [](/\ FlagsMatch(mapKind, updateSupplyLines(World).tiles, players)
        /\ updateSupplyLines(updateSupplyLines(World)) = updateSupplyLines(World)
        /\ updateSupplyLines(Flagged(World, TRUE)).tiles
             = updateSupplyLines(Flagged(World, FALSE)).tiles)
  /\ [][(TickStep /\ phase = "playing" /\ supplyCheckCounter' = 0)
        => FlagsMatch(mapKind, tiles', players')]_vars

\* a recomputation has just left one tile of a contestant connected and
\* another tile of the same contestant cut off
C15_Witness ==
  /\ phase = "playing" /\ supplyCheckCounter = 0 /\ tick > 0
  /\ FlagsMatch(mapKind, tiles, players)
  /\ \E k \in DOMAIN tiles : \E j \in DOMAIN tiles :
       /\ tiles[k].ownerId # NoOne /\ tiles[j].ownerId = tiles[k].ownerId
       /\ tiles[k].connected /\ ~tiles[j].connected

\* the tick puts a structure or a mine level on tile k
BuiltOn(k) ==
  \/ /\ tiles'[k].structureType # NoStructure
     /\ tiles'[k].structureType # TileAt(tiles, k[1], k[2]).structureType
  \/ tiles'[k].mineLevel > TileAt(tiles, k[1], k[2]).mineLevel

\* the tick accepts an order into the training queue of the building on tile k
TrainedOn(k) ==
  \E q \in 1..Len(trainingQueues') :
    /\ trainingQueues'[q].key = k
    /\ Len(trainingQueues'[q].queue) > Queued(k)

\* C16: no structure is built and no unit order is accepted on a tile that,
\* when the commands of the tick are applied, is not joined to its owner's
\* capital through the owner's own non-mountain tiles, and the income rate of
\* a living contestant is at most what the tiles joined to the capital yield.
C16_NoSupplyNoUse ==
  /\ [](phase = "playing" =>
          \A i \in 1..Len(players) :
            players[i].alive =>
              players[i].goldPerSecond
                <= ((GoldPerSecond(updateSupplyLines(World), players[i]) + 5) \div 10) * 10)
  /\ [][(TickStep /\ phase = "playing") =>
          \A k \in DOMAIN tiles' :
            (BuiltOn(k) \/ TrainedOn(k)) => SupplyLinked(mapKind, tiles, players, k)]_vars

\* r is a final standing of the roster ps
Standings(r, ps) ==
  /\ Len(r.scores) = Len(ps)
  /\ \A i \in 1..Len(ps) :
       \E k \in 1..Len(r.scores) :
         /\ r.scores[k].playerId = ps[i].id
         /\ r.scores[k].alive = ps[i].alive
         /\ r.scores[k].score = ps[i].score
  /\ \A k \in 1..Len(r.scores) : r.scores[k].placement = k
  /\ \A k \in 1..Len(r.scores) : \A l \in (k + 1)..Len(r.scores) :
       /\ r.scores[k].playerId # r.scores[l].playerId
       /\ r.scores[l].alive => r.scores[k].alive
       /\ r.scores[k].alive = r.scores[l].alive => r.scores[k].score >= r.scores[l].score
  /\ r.winnerId = IF Len(r.scores) > 0 THEN r.scores[1].playerId ELSE NoOne

\* C17: the final standings have one entry per contestant of the roster,
\* with the placements 1..N in order, the living before the dead, equals in
\* aliveness by non-increasing score, and the winner is placement 1. Holds
\* of the standings a finished match has reported and of those
\* buildMatchResult would report in any state.
C17_Standings ==
  /\ Standings(buildMatchResult(World), players)
  /\ matchEndCalls > 0 => Standings(matchResult, players)

\* a finished match whose standings are not in roster order: both
\* contestants live and the second of the roster is placed first by score
C17_Witness ==
  /\ phase = "finished" /\ matchEndCalls = 1 /\ Len(players) >= 2
  /\ matchResult.scores[1].playerId = players[2].id
  /\ matchResult.winnerId = players[2].id
  /\ players[1].alive /\ players[2].alive /\ players[2].score > players[1].score

\* the contestant holds a squad or a tile in the given tables
Holds(id, sq, ts) ==
  \/ \E k \in 1..Len(sq) : sq[k].ownerId = id
  \/ \E k \in DOMAIN ts : ts[k].ownerId = id

\* C18: no step takes a contestant off the roster or moves it within the
\* roster, and a contestant that is not alive stays not alive, holds no
\* squad and no tile, and its gold stays what it was.
C18_RosterKept ==
  /\ [](\A i \in 1..Len(players) : ~players[i].alive => ~Holds(players[i].id, squads, tiles))
  /\ [][\A i \in 1..Len(players) :
          /\ i <= Len(players') /\ players'[i].id = players[i].id
          /\ ~players[i].alive =>
                /\ ~players'[i].alive
                /\ players'[i].gold = players[i].gold
                /\ ~Holds(players[i].id, squads', tiles')]_vars

\* a contestant that was left without a spawn location, and has disconnected
\* since, is still not alive when the tick of play after its death has ended
\* the match, and is in the roster and in the final standings
C18_Witness ==
  \E i \in 1..Len(players) :
    /\ ~players[i].alive /\ ~players[i].connected /\ Len(players) >= 2
    /\ phase = "finished" /\ matchEndCalls = 1
    /\ \E k \in 1..Len(matchResult.scores) :
         /\ matchResult.scores[k].playerId = players[i].id
         /\ ~matchResult.scores[k].alive

\* how many snapshots of the last tick went to the contestant
SnapshotsTo(id, updates) == Cardinality({ k \in 1..Len(updates) : updates[k] = id })

\* a bot drives the contestant
Driven(id, ais) == \E k \in 1..Len(ais) : ais[k] = id

\* every tick sends one snapshot to each connected non-bot contestant and
\* none to anyone else
OnePerConnectedHuman ==
  TickStep =>
    /\ \A i \in 1..Len(players') :
         SnapshotsTo(players'[i].id, stateUpdates')
           = IF ~players'[i].isBot /\ players'[i].connected THEN 1 ELSE 0
    /\ \A k \in 1..Len(stateUpdates') : stateUpdates'[k] \in PlayerIds(World')

\* a step that reconnects contestant i leaves it a connected non-bot
\* without a bot driver
ReconnectedClean ==
  \A i \in 1..Len(players) :
    (~players[i].connected /\ players'[i].connected) =>
      ~players'[i].isBot /\ ~Driven(players[i].id, botAIs')

\* C19 as stated: one snapshot per tick to each connected non-bot contestant
\* and none to the others; a disconnected contestant is driven by a bot until
\* it reconnects; a reconnected one is a connected non-bot without driver.
C19_DisconnectedDriven ==
  /\ [](~destroyed =>
          \A i \in 1..Len(players) :
            ~players[i].connected => players[i].isBot /\ Driven(players[i].id, botAIs))
  /\ [][OnePerConnectedHuman /\ ReconnectedClean]_vars

\* C19, for the living: one snapshot per tick to each connected non-bot
\* contestant and none to the others; a disconnected contestant that is
\* alive is driven by a bot until it reconnects; a reconnected one is a
\* connected non-bot without driver.
C19_Snapshots ==
  /\ [](~destroyed =>
          \A i \in 1..Len(players) :
            (~players[i].connected /\ players[i].alive)
              => players[i].isBot /\ Driven(players[i].id, botAIs))
  /\ [][OnePerConnectedHuman /\ ReconnectedClean]_vars

\* the second contestant was disconnected for a tick, in which its bot
\* queued a command, has reconnected, and the tick after has handled that
\* command and sent snapshots to both contestants
C19_Witness ==
  /\ phase = "playing" /\ Len(players) = 2
  /\ \A i \in 1..2 : players[i].alive /\ players[i].connected /\ ~players[i].isBot
  /\ botAIs = << >>
  /\ stateUpdates = << players[1].id, players[2].id >>
  /\ \E k \in 1..Len(processed) :
       /\ processed[k].playerId = players[2].id
       /\ processed[k].command.type = "move_squad"
       /\ processed[k].command.x = (players[2].capitalX + 3) * SCALE

\* tile t lies within the sight of a tile or of a squad of the contestant
Sees(id, t) ==
  \/ \E k \in DOMAIN tiles :
       tiles[k].ownerId = id /\ distanceSq(k[1], k[2], t[1], t[2]) <= 3 * 3
  \/ \E i \in 1..Len(squads) :
       /\ squads[i].ownerId = id
       /\ distanceSq(Round(squads[i].x), Round(squads[i].y), t[1], t[2])
            <= FOG_OF_WAR_RADIUS * FOG_OF_WAR_RADIUS

\* the tiles of the map in the square of half-width r around c
Box(c, r) ==
  { t \in ((c[1] - r)..(c[1] + r)) \X ((c[2] - r)..(c[2] + r)) : InMap(t[1], t[2]) }

\* the centres and radii of the contestant's sight: its tiles and the tiles
\* of its squads
SightSources(id) ==
  Members({ << k[1], k[2], 3 >> : k \in { t \in DOMAIN tiles : tiles[t].ownerId = id } }
          \cup { << Round(squads[i].x), Round(squads[i].y), FOG_OF_WAR_RADIUS >> :
                   i \in { j \in 1..Len(squads) : squads[j].ownerId = id } })

\* the snapshot lists the tiles the contestant sees and no other
SeenTilesListed(id, snap) ==
  LET sources == SightSources(id)
  IN  /\ \A t \in snap.visibleTiles :
           /\ InMap(t[1], t[2])
           /\ \E c \in sources : distanceSq(c[1], c[2], t[1], t[2]) <= c[3] * c[3]
      /\ \A c \in sources : \A t \in Box(c, c[3]) :
           distanceSq(c[1], c[2], t[1], t[2]) <= c[3] * c[3] => t \in snap.visibleTiles

\* the squad of the table the entry of a snapshot is about
SquadWithId(sid) == CHOOSE i \in 1..Len(squads) : squads[i].id = sid

SnapshotSquads(id, snap) ==
  /\ \A i \in 1..Len(squads) :
       squads[i].ownerId = id =>
         \E e \in 1..Len(snap.squads) :
           snap.squads[e].id = squads[i].id /\ snap.squads[e].target = squads[i].target
  /\ \A e \in 1..Len(snap.squads) :
       /\ \E i \in 1..Len(squads) : squads[i].id = snap.squads[e].id
       /\ snap.squads[e].ownerId = squads[SquadWithId(snap.squads[e].id)].ownerId
       /\ snap.squads[e].ownerId # id =>
            /\ snap.squads[e].target = << >>
            /\ Sees(id, << Round(squads[SquadWithId(snap.squads[e].id)].x),
                           Round(squads[SquadWithId(snap.squads[e].id)].y) >>)

\* C20: the snapshot built for a contestant lists exactly the tiles within
\* distance 3 of a tile it owns or within the fog-of-war radius of one of
\* its squads, has every squad of the contestant with its destination, has
\* a squad of another contestant only if the squad's tile is among the tiles
\* seen, and reports no destination for a squad of another contestant.
C20_Snapshot ==
  \A p \in 1..Len(players) :
    LET snap == buildSnapshot(World, players[p].id)
    IN  SeenTilesListed(players[p].id, snap) /\ SnapshotSquads(players[p].id, snap)

\* the snapshot of the second contestant leaves out a squad of the first
\* that is out of sight and shows another, which is on its way, without its
\* destination
C20_Witness ==
  /\ Len(players) = 2 /\ phase = "playing"
  /\ \E i \in 1..Len(squads) : \E j \in 1..Len(squads) :
       /\ squads[i].ownerId = players[1].id /\ squads[j].ownerId = players[1].id
       /\ ~Sees(players[2].id, << Round(squads[i].x), Round(squads[i].y) >>)
       /\ \A e \in 1..Len(buildSnapshot(World, players[2].id).squads) :
            buildSnapshot(World, players[2].id).squads[e].id # squads[i].id
       /\ squads[j].target # << >>
       /\ \E e \in 1..Len(buildSnapshot(World, players[2].id).squads) :
            /\ buildSnapshot(World, players[2].id).squads[e].id = squads[j].id
            /\ buildSnapshot(World, players[2].id).squads[e].target = << >>

\* the events of a snapshot that carry a location
Located(e) == e.type \in { "build", "structure_destroyed", "tower_fire" }

\* C21: every located item of the snapshot built for a contestant lies in
\* the contestant's visibility set: the tiles listed, the squads of other
\* contestants, and the events of the tick that carry coordinates.
C21_FogOfWar ==
  \A p \in 1..Len(players) :
    LET snap == buildSnapshot(World, players[p].id)
        visible == computeVisibility(World, players[p].id)
    IN  /\ snap.visibleTiles \subseteq visible
        /\ \A e \in 1..Len(snap.squads) :
             snap.squads[e].ownerId # players[p].id =>
               << Round(snap.squads[e].x), Round(snap.squads[e].y) >> \in visible
        /\ \A e \in 1..Len(snap.events) :
             Located(snap.events[e]) => << snap.events[e].x, snap.events[e].y >> \in visible

\* C22: destroy is idempotent, and once the match is destroyed the tick
\* timer is cancelled, the squads, the spatial index, the training queues,
\* the bots and the pending commands are empty, and no tick runs again: the
\* tick count, the snapshots sent, the phase and the phase-change and
\* match-end callbacks stay as they are.
C22_Teardown ==
  /\ [](destroy(destroy(World)) = destroy(World))
  /\ [](destroyed =>
          /\ ~tickInterval
          /\ squads = << >> /\ trainingQueues = << >> /\ botAIs = << >>
          /\ pendingCommands = << >>
          /\ spatialHash = [ cells |-> EmptyMap, entityCells |-> EmptyMap ])
  /\ [][destroyed => UNCHANGED << tick, phase, stateUpdates, phaseChanges, matchEndCalls,
                                  matchResult >>]_vars

\* a match torn down in mid-play, with ticks still to come and its timer
\* having expired since: the contestants had spawned, and nothing is left
C22_Witness ==
  /\ destroyed /\ phase = "playing" /\ tick >= 2 /\ ticksLeft > 0 /\ matchTimeUp
  /\ Len(players) = 2 /\ \A i \in 1..2 : players[i].alive /\ players[i].spawnSelected
  /\ squads = << >> /\ ~tickInterval /\ matchEndCalls = 0


\* the pending commands without the k-th
WithoutCommand(k) ==
  [World EXCEPT !.pendingCommands =
     SubSeq(pendingCommands, 1, k - 1) \o SubSeq(pendingCommands, k + 1, Len(pendingCommands))]

\* the k-th pending command raises when the tick reaches it
FailsAt(k) ==
  LET before == DispatchAll([World EXCEPT !.pendingCommands = << >>],
                            SubSeq(pendingCommands, 1, k - 1), 1)
  IN  Throws(before, pendingCommands[k].playerId, pendingCommands[k].command)

\* the match after the pending commands of W were processed
Outcome(W) == [processCommands(W) EXCEPT !.processed = << >>]

\* C23: when a command of the drained batch raises an exception, the
\* commands after it are still dispatched, and the match after the batch is
\* the match the batch without the failing command would have produced.
C23_FailureIsolated ==
  phase \in { "spawn_selection", "playing" } =>
    \A k \in 1..Len(pendingCommands) :
       FailsAt(k) =>
         /\ Outcome(World) = Outcome(WithoutCommand(k))
         /\ processCommands([World EXCEPT !.processed = << >>]).processed = pendingCommands

\* a tick dispatched a missing command and then a spawn choice, which was
\* accepted
C23_Witness ==
  /\ phase = "spawn_selection" /\ Len(processed) = 2
  /\ processed[1].command = NullCommand
  /\ processed[2].command.type = "select_spawn"
  /\ \E i \in 1..Len(players) :
        /\ players[i].id = processed[2].playerId
        /\ players[i].spawnSelected
        /\ players[i].capitalX = Round(processed[2].command.x)
        /\ players[i].capitalY = Round(processed[2].command.y)


\* |x1 - x2| + |y1 - y2|
Manhattan(x1, y1, x2, y2) == Abs(x1 - x2) + Abs(y1 - y2)

\* the returned path walks from a neighbour of the start to the target, each
\* tile 4-adjacent to the one before it
WalksTo(q) ==
  /\ q.path # << >>
  /\ Manhattan(q.startX, q.startY, q.path[1][1], q.path[1][2]) = 1
  /\ q.path[Len(q.path)] = << q.endX, q.endY >>
  /\ \A k \in 1..(Len(q.path) - 1) :
        Manhattan(q.path[k][1], q.path[k][2], q.path[k + 1][1], q.path[k + 1][2]) = 1

\* C24 as stated: equal start and target give an empty path; a mountain as
\* target gives no path; on the map of only plains a path has as many steps
\* as the Manhattan distance, and a search that used up its budget gives no
\* path.
C24_PlainsPath ==
  pathQuery.returned =>
    /\ (pathQuery.startX = pathQuery.endX /\ pathQuery.startY = pathQuery.endY) =>
          (pathQuery.found /\ pathQuery.path = << >>)
    /\ Terrain(pathQuery.kind, pathQuery.endX, pathQuery.endY) = "mountain" => ~pathQuery.found
    /\ (pathQuery.kind = "meadow" /\ pathQuery.found) =>
          Len(pathQuery.path) =
            Manhattan(pathQuery.startX, pathQuery.startY, pathQuery.endX, pathQuery.endY)

\* C24, amended: the same, a mountain as target giving no path when it is
\* not the start tile as well; and on the map of only plains with distinct
\* start and target, either the path walks to the target in as many steps
\* as the Manhattan distance, or the loop has taken all the turns of its
\* budget and there is no path.
C24_PlainsPathDistinct ==
  pathQuery.returned =>
    LET same == pathQuery.startX = pathQuery.endX /\ pathQuery.startY = pathQuery.endY
        far == Manhattan(pathQuery.startX, pathQuery.startY, pathQuery.endX, pathQuery.endY)
    IN  /\ same => (pathQuery.found /\ pathQuery.path = << >>)
        /\ (~same /\ Terrain(pathQuery.kind, pathQuery.endX, pathQuery.endY) = "mountain") =>
              ~pathQuery.found
        /\ (~same /\ pathQuery.kind = "meadow") =>
              IF pathQuery.found
              THEN /\ Len(pathQuery.path) = far
                   /\ WalksTo(pathQuery)
                   /\ pathQuery.steps <= pathQuery.maxSteps
              ELSE pathQuery.steps = pathQuery.maxSteps
        /\ (~same /\ far >= pathQuery.maxSteps) => ~pathQuery.found

\* a path of eight steps was found on the map of only plains
C24_Witness ==
  /\ pathQuery.returned /\ pathQuery.kind = "meadow" /\ pathQuery.found
  /\ Len(pathQuery.path) = 2 * PathWindow


\* the tile a squad stands on
TileOf(sq) == << Round(sq.x), Round(sq.y) >>

\* path p is what is left of path q after some steps
IsRestOf(p, q) ==
  \E n \in 0..Len(q) : p = SubSeq(q, n + 1, Len(q))

\* C25: a step that gives a squad a path gives it one without a tile that
\* holds a wall, and a step that takes a squad to another tile takes it to
\* one that holds no wall.
C25_WallsBlock ==
  [][\A k \in 1..Len(squads') :
       LET now == squads'[k]
           known == \E j \in 1..Len(squads) : squads[j].id = now.id
           was == squads[CHOOSE j \in 1..Len(squads) : squads[j].id = now.id]
       IN  /\ (now.path # << >> /\ (~known \/ ~IsRestOf(now.path, was.path))) =>
                 \A n \in 1..Len(now.path) :
                    TileAt(tiles', now.path[n][1], now.path[n][2]).structureType # "wall"
           /\ (known /\ TileOf(now) # TileOf(was)) =>
                 TileAt(tiles', TileOf(now)[1], TileOf(now)[2]).structureType # "wall"
    ]_vars


\* C26: a tile that gets a contestant as its new owner in a tick of the
\* playing phase was, at the start of that tick, being captured by that
\* contestant with progress below CAPTURE_THRESHOLD; so a tile owned by
\* another contestant is not taken in the first tick a squad stands on it.
C26_CaptureTakesTime ==
  [][ (TickStep /\ phase = "playing") =>
        \A k \in DOMAIN tiles \cup DOMAIN tiles' :
           (OwnerChanges(k) /\ TileAt(tiles', k[1], k[2]).ownerId # NoOne) =>
              /\ TileAt(tiles, k[1], k[2]).capturingPlayerId = TileAt(tiles', k[1], k[2]).ownerId
              /\ TileAt(tiles, k[1], k[2]).captureProgress < CAPTURE_THRESHOLD * SCALE
    ]_vars


\* the movement cost of walking the path, in thousandths
PathCost(q, path) ==
  LET c[n \in 0..Len(path)] ==
        IF n = 0 THEN 0
        ELSE c[n - 1] + NeighborCost(q.kind, QueryTiles(q), path[n][1], path[n][2])
  IN  c[Len(path)]

\* the passable tiles of the map within Margin of the box spanned by the
\* start and the target of the query
Margin == 2
Surroundings(q) ==
  { t \in ((Min2(q.startX, q.endX) - Margin)..(Max2(q.startX, q.endX) + Margin))
          \X ((Min2(q.startY, q.endY) - Margin)..(Max2(q.startY, q.endY) + Margin)) :
      NeighborCost(q.kind, QueryTiles(q), t[1], t[2]) # 0 \/ t = << q.startX, q.startY >> }

\* Cheapest costs from the start by repeated relaxation: dist maps every
\* tile of win to the cost of the cheapest walk found so far, Unreached when
\* there is none.
Unreached == 100000000
RECURSIVE Settle(_, _, _, _)
Settle(q, win, dist, n) ==
  LET via(t) == { dist[u] + NeighborCost(q.kind, QueryTiles(q), t[1], t[2]) :
                    u \in { v \in win : Manhattan(v[1], v[2], t[1], t[2]) = 1
                                         /\ dist[v] # Unreached } }
      best(t) == CHOOSE m \in via(t) \cup { dist[t] } :
                    \A o \in via(t) \cup { dist[t] } : m <= o
      next == [ t \in win |-> IF t = << q.startX, q.startY >> THEN 0 ELSE best(t) ]
  IN  IF n = 0 \/ next = dist THEN dist ELSE Settle(q, win, next, n - 1)

\* the cost of the cheapest walk from the start to the target through the
\* surroundings
CheapestCost(q) ==
  LET win == Surroundings(q)
      d0 == [ t \in win |-> IF t = << q.startX, q.startY >> THEN 0 ELSE Unreached ]
  IN  Settle(q, win, d0, Cardinality(win))[<< q.endX, q.endY >>]

\* C27: a non-empty path returned by findPath walks from a neighbour of the
\* start to the target over 4-adjacent tiles none of which is a mountain,
\* and no walk from the start to the target costs less.
C27_ShortestPath ==
  (pathQuery.returned /\ pathQuery.found /\ pathQuery.path # << >>) =>
     /\ WalksTo(pathQuery)
     /\ \A n \in 1..Len(pathQuery.path) :
           Terrain(pathQuery.kind, pathQuery.path[n][1], pathQuery.path[n][2]) # "mountain"
     /\ PathCost(pathQuery, pathQuery.path) <= CheapestCost(pathQuery)


\* the entries queueCommand makes of the commands the bots returned
Stamped(botCommands, t) ==
  [ k \in 1..Len(botCommands) |->
      [ playerId |-> botCommands[k].playerId, command |-> botCommands[k].command, tick |-> t ] ]

\* C28: the bot pass appends the commands the bots return to the pending
\* commands and changes nothing else of the match; a tick of the playing
\* phase dispatches only the commands that were pending when it began, ends
\* with the bots' commands of that tick pending, and leaves the rest of the
\* match as a tick in which the bots returned nothing would have.
C28_BotsOnlyQueue ==
  /\ [](phase = "playing" =>
          \A botCommands \in BotCommandChoices :
             runBots(World, botCommands) =
               [World EXCEPT !.pendingCommands = @ \o Stamped(botCommands, tick)])
  /\ [][(TickStep /\ phase = "playing") =>
          /\ processed' = pendingCommands
          /\ \A k \in 1..Len(pendingCommands') :
                /\ \E b \in 1..Len(botAIs) : botAIs[b] = pendingCommands'[k].playerId
                /\ pendingCommands'[k].tick = tick'
          /\ \E dt \in DtChoices : \E rnd \in RandomChoices :
                [WorldNext EXCEPT !.pendingCommands = << >>] =
                  [runTick(World, dt, spawnTimeUp, matchTimeUp, rnd, << >>)
                     EXCEPT !.pendingCommands = << >>]
     ]_vars

\* a tick has dispatched the train order a bot had returned in the tick
\* before, and the order stands in the queue of the bot's castle
C28_Witness ==
  /\ phase = "playing"
  /\ \E k \in 1..Len(processed) : \E b \in 1..Len(botAIs) :
        /\ processed[k].playerId = botAIs[b]
        /\ processed[k].tick = tick - 1
        /\ processed[k].command.type = "train_unit"
        /\ \E i \in 1..Len(players) :
              /\ players[i].id = botAIs[b]
              /\ Queued(<< players[i].capitalX, players[i].capitalY >>) > 0


\* the time an order of the unit type takes at a castle and at a barracks, in
\* milliseconds
FullTimes(unitType) ==
  { UNIT_STATS[unitType].trainTime * 1000, UNIT_STATS[unitType].trainTime * 700 }

\* the number of units of the type in the squads of the owner
UnitsOf(W, ownerId, unitType) ==
  SumSeq(Listed([ i \in 1..Len(W.squads) |->
                    IF W.squads[i].ownerId = ownerId
                    THEN Cardinality({ k \in 1..Len(W.squads[i].units) :
                                         W.squads[i].units[k].type = unitType })
                    ELSE 0 ]), 1)

\* a train order of contestant i at its castle either changes nothing or
\* takes the cost of the unit from the gold of the contestant and puts one
\* order with the full time at the tail of the castle's queue, which had
\* fewer than MAX_QUEUE orders
TrainOrderExact(i, unitType) ==
  LET key == << players[i].capitalX, players[i].capitalY >>
      W == handleTrainUnit(World, players[i].id,
                           TrainUnit(unitType, key[1] * SCALE, key[2] * SCALE))
      qi == QueueIndex(W, key)
  IN  \/ W = World
      \/ /\ [W EXCEPT !.trainingQueues = trainingQueues, !.players[i].gold = players[i].gold]
              = World
         /\ W.players[i].gold = players[i].gold - UNIT_STATS[unitType].cost * SCALE
         /\ Queued(key) < MAX_QUEUE
         /\ qi # 0
         /\ Len(W.trainingQueues[qi].queue) = Queued(key) + 1
         /\ W.trainingQueues[qi].queue[Queued(key) + 1].unitType = unitType
         /\ W.trainingQueues[qi].queue[Queued(key) + 1].remainingTime \in FullTimes(unitType)
         /\ \A k \in 1..Queued(key) :
               W.trainingQueues[qi].queue[k] = trainingQueues[qi].queue[k]
         /\ \A k \in 1..Len(W.trainingQueues) :
               k = qi \/ (k <= Len(trainingQueues) /\ W.trainingQueues[k] = trainingQueues[k])

\* the training pass over the queues as they are: a queue whose building is
\* gone or cut off is emptied; otherwise the head order loses dt, and when
\* that uses it up the head leaves the queue and the owner of the building
\* has one more unit of its type; the orders behind it stay as they are
TrainingAdvances(dt) ==
  LET W == updateTraining(World, dt)
      tile(qi) == TileAt(tiles, trainingQueues[qi].key[1], trainingQueues[qi].key[2])
      valid(qi) == /\ tile(qi).structureType # NoStructure /\ tile(qi).ownerId # NoOne
                   /\ tile(qi).connected
      due(qi) == /\ trainingQueues[qi].queue # << >> /\ valid(qi)
                 /\ trainingQueues[qi].queue[1].remainingTime <= dt
  IN  /\ Len(W.trainingQueues) = Len(trainingQueues)
      /\ \A qi \in 1..Len(trainingQueues) :
            LET q == trainingQueues[qi].queue
                r == W.trainingQueues[qi].queue
            IN  IF q = << >> \/ ~valid(qi) THEN r = << >>
                ELSE IF due(qi) THEN r = Tail(q)
                ELSE r = [q EXCEPT ![1].remainingTime = @ - dt]
      /\ \A i \in 1..Len(players) : \A unitType \in UnitTypes :
            UnitsOf(W, players[i].id, unitType) =
              UnitsOf(World, players[i].id, unitType)
              + Cardinality({ qi \in 1..Len(trainingQueues) :
                                /\ due(qi) /\ tile(qi).ownerId = players[i].id
                                /\ trainingQueues[qi].queue[1].unitType = unitType })

\* C29: no queue holds more than MAX_QUEUE orders, and the orders behind
\* the head have their full time; an accepted train order costs the unit's
\* price once and adds one order at the tail; the training pass runs down
\* the head order only and produces the units in the order of the queue;
\* and the queues after a tick are those the training pass left.
C29_TrainingQueues ==
  /\ [](\A qi \in 1..Len(trainingQueues) :
          /\ Len(trainingQueues[qi].queue) <= MAX_QUEUE
          /\ \A k \in 2..Len(trainingQueues[qi].queue) :
                trainingQueues[qi].queue[k].remainingTime
                  \in FullTimes(trainingQueues[qi].queue[k].unitType))
  /\ [](phase = "playing" =>
          /\ \A i \in 1..Len(players) : \A unitType \in { "militia", "siege_ram" } :
                TrainOrderExact(i, unitType)
          /\ TrainingAdvances(PlayDt))
  /\ [][(TickStep /\ phase = "playing") =>
          trainingQueues' = updateTraining(processCommands(World), PlayDt).trainingQueues]_vars

\* the first contestant of the siege had filled the queue of its castle; the
\* first order has produced a sixth militia, and the second one is under way
C29_Witness ==
  /\ scenario = "siege" /\ phase = "playing"
  /\ Queued(<< players[1].capitalX, players[1].capitalY >>) = MAX_QUEUE - 1
  /\ \E qi \in 1..Len(trainingQueues) :
        /\ Len(trainingQueues[qi].queue) = MAX_QUEUE - 1
        /\ trainingQueues[qi].queue[1].remainingTime
              < UNIT_STATS[trainingQueues[qi].queue[1].unitType].trainTime * 700
  /\ UnitsOf(World, players[1].id, "militia") = 6


\* squad sq may take in a unit trained at building key of the owner: it is
\* the owner's, stands still, has room, and is within 2 tiles of the
\* building on both axes
MayTakeIn(sq, ownerId, key) ==
  /\ sq.ownerId = ownerId
  /\ sq.path = << >>
  /\ Len(sq.units) < MAX_SQUAD_SIZE
  /\ Abs(sq.x - key[1] * SCALE) <= 2 * SCALE
  /\ Abs(sq.y - key[2] * SCALE) <= 2 * SCALE

\* the keys of the buildings of the owner whose head order is completed by a
\* training pass of dt over match W
DueAt(W, ownerId, dt) ==
  { W.trainingQueues[qi].key : qi \in
      { n \in 1..Len(W.trainingQueues) :
          /\ W.trainingQueues[n].queue # << >>
          /\ W.trainingQueues[n].queue[1].remainingTime <= dt
          /\ TileAt(W.tiles, W.trainingQueues[n].key[1], W.trainingQueues[n].key[2]).ownerId
                = ownerId } }

\* C30: no squad holds more than MAX_SQUAD_SIZE units; a squad that has
\* more units after a tick than the commands of the tick left it with was
\* one that may take in a unit of a building whose order was completed; and
\* a squad that is new after a tick has one unit and belongs to the owner of
\* such a building that had no squad to take the unit in.
C30_MergeNearby ==
  /\ [](\A k \in 1..Len(squads) : Len(squads[k].units) <= MAX_SQUAD_SIZE)
  /\ [][(TickStep /\ phase = "playing") =>
          LET P == processCommands(World)
          IN  \A k \in 1..Len(squads') :
                IF \E j \in 1..Len(P.squads) : P.squads[j].id = squads'[k].id
                THEN LET was == P.squads[SquadIndex(P, squads'[k].id)]
                     IN  Len(squads'[k].units) > Len(was.units) =>
                           \E key \in DueAt(P, was.ownerId, PlayDt) :
                              MayTakeIn(was, was.ownerId, key)
                ELSE /\ Len(squads'[k].units) = 1
                     /\ \E key \in DueAt(P, squads'[k].ownerId, PlayDt) :
                           \A j \in 1..Len(P.squads) :
                              ~MayTakeIn(P.squads[j], squads'[k].ownerId, key)
     ]_vars


\* C31: after a tick that recomputed the supply lines, and in which no
\* contestant was eliminated, the territory count of each contestant is the
\* number of its tiles that are marked connected.
C31_CountIsConnected ==
  [][ ( /\ TickStep /\ phase = "playing" /\ supplyCheckCounter' = 0
        /\ \A i \in 1..Len(players) : players'[i].alive = players[i].alive ) =>
        \A i \in 1..Len(players) :
           players'[i].territoryCount =
             Cardinality({ k \in DOMAIN tiles' :
                             tiles'[k].ownerId = players[i].id /\ tiles'[k].connected })
    ]_vars


\* C32: a step that leaves a tile with another structure than it had found
\* the tile without a structure; a mine upgrade on top of a mine upgrade
\* keeps the structure and is no such step.
C32_BuildOnEmpty ==
  [][ \A k \in DOMAIN tiles' :
        ( /\ tiles'[k].structureType # NoStructure
          /\ tiles'[k].structureType # TileAt(tiles, k[1], k[2]).structureType ) =>
           TileAt(tiles, k[1], k[2]).structureType = NoStructure
    ]_vars


\* where the entries with the id are stored in hash H: pairs of a cell key
\* and a position in the cell
StoredAt(H, id) ==
  { cn \in UNION { { << c, n >> : n \in 1..Len(H.cells[c]) } : c \in DOMAIN H.cells } :
      H.cells[cn[1]][cn[2]].id = id }

\* the ids with an entry in some cell of H
StoredIds(H) ==
  UNION { { H.cells[c][n].id : n \in 1..Len(H.cells[c]) } : c \in DOMAIN H.cells }

\* the entry stored for the id, which StoredAt finds in one place
StoredEntry(H, id) ==
  LET cn == CHOOSE cn \in StoredAt(H, id) : TRUE IN H.cells[cn[1]][cn[2]]

\* every known id is stored once, in the cell of its position, which is the
\* cell recorded for it; nothing else is stored; no cell is empty; and
\* entityCount is the number of ids stored
HashWellFormed(H) ==
  /\ StoredIds(H) = DOMAIN H.entityCells
  /\ \A id \in DOMAIN H.entityCells :
        /\ Cardinality(StoredAt(H, id)) = 1
        /\ \A cn \in StoredAt(H, id) :
              /\ cn[1] = H.entityCells[id]
              /\ cn[1] = << H.cells[cn[1]][cn[2]].x \div (SPATIAL_HASH_CELL_SIZE * SCALE),
                            H.cells[cn[1]][cn[2]].y \div (SPATIAL_HASH_CELL_SIZE * SCALE) >>
  /\ \A c \in DOMAIN H.cells : Len(H.cells[c]) > 0
  /\ hashEntityCount(H) = Cardinality(StoredIds(H))

\* C33: the hash reached by any calls of insertOrUpdate and remove is well
\* formed; insertOrUpdate leaves the entry it was given stored for its id and
\* the entries of the other ids as they were; remove leaves the id without
\* an entry and the entries of the other ids as they were.
C33_HashConsistent ==
  /\ HashWellFormed(spatialHash)
  /\ \A entry \in HashEntriesIn :
        LET H == hashInsertOrUpdate(spatialHash, entry)
        IN  /\ HashWellFormed(H)
            /\ StoredIds(H) = StoredIds(spatialHash) \cup { entry.id }
            /\ StoredEntry(H, entry.id) = entry
            /\ \A id \in StoredIds(spatialHash) \ { entry.id } :
                  StoredEntry(H, id) = StoredEntry(spatialHash, id)
  /\ \A gone \in HashIds :
        LET H == hashRemove(spatialHash, gone)
        IN  /\ HashWellFormed(H)
            /\ StoredIds(H) = StoredIds(spatialHash) \ { gone }
            /\ \A id \in StoredIds(H) : StoredEntry(H, id) = StoredEntry(spatialHash, id)

\* two ids share a cell, the one with the higher id stored first, and the
\* third id is stored in the cell across the border
C33_Witness ==
  /\ hashEntityCount(spatialHash) = 3
  /\ << 0, 0 >> \in DOMAIN spatialHash.cells /\ << 1, 0 >> \in DOMAIN spatialHash.cells
  /\ Len(spatialHash.cells[<< 0, 0 >>]) = 2
  /\ spatialHash.cells[<< 0, 0 >>][1].id = 3
  /\ spatialHash.cells[<< 0, 0 >>][2].id = 2
  /\ spatialHash.cells[<< 0, 0 >>][2].x = 7900
  /\ spatialHash.cells[<< 1, 0 >>][1].id = 1


\* the spatial hash of W holds the squads of W and nothing else: the ids
\* stored are the squads' ids, each stored once, with the squad's position
\* and owner
HashMirrorsSquads(W) ==
  /\ StoredIds(W.spatialHash) = { W.squads[i].id : i \in 1..Len(W.squads) }
  /\ DOMAIN W.spatialHash.entityCells = StoredIds(W.spatialHash)
  /\ \A i \in 1..Len(W.squads) :
        /\ Cardinality(StoredAt(W.spatialHash, W.squads[i].id)) = 1
        /\ StoredEntry(W.spatialHash, W.squads[i].id) =
              [ id |-> W.squads[i].id, x |-> W.squads[i].x, y |-> W.squads[i].y,
                ownerId |-> W.squads[i].ownerId ]

\* the match after the movement step of a playing tick of the play
AfterMovement ==
  updateUnitMovement(updateTraining(runBots(processCommands(World), << >>), PlayDt), PlayDt)
AfterCombat == resolveCombat(AfterMovement, PlayDt)
AfterTowers == updateTowers(AfterCombat, 0)
AfterTerritory == updateTerritory(AfterTowers, PlayDt)
AfterEconomy == calculateEconomy(checkSupply(AfterTerritory), PlayDt)
AfterEndConditions == checkEndConditions(updateScores(AfterEconomy), matchTimeUp)

\* C34: in every state the spatial hash holds exactly the squads, with their
\* positions and owners, and so it does between the steps of the playing
\* tick that starts in the state, from the end of the movement step (where
\* combat starts) to the end of the tick.
C34_HashMirrorsSquads ==
  /\ HashMirrorsSquads(World)
  /\ (phase = "playing" /\ tickInterval) =>
        /\ HashMirrorsSquads(AfterMovement)
        /\ HashMirrorsSquads(AfterCombat)
        /\ HashMirrorsSquads(AfterTowers)
        /\ HashMirrorsSquads(AfterTerritory)
        /\ HashMirrorsSquads(AfterEconomy)
        /\ HashMirrorsSquads(AfterEndConditions)

\* a squad was created by training, squads were removed in combat, a
\* squad is on its way between two tiles, and the tick that starts here
\* moves it on
C34_Witness ==
  /\ phase = "playing" /\ tickInterval
  /\ nextSquadId > 3
  /\ Len(squads) < nextSquadId - 1
  /\ \E i \in 1..Len(squads) :
        /\ squads[i].x % SCALE # 0
        /\ i <= Len(AfterMovement.squads)
        /\ AfterMovement.squads[i].x # squads[i].x


\* C35: in every state every squad stands on a tile of the map that is not
\* a mountain.
C35_SquadsOnOpenGround ==
  \A i \in 1..Len(squads) :
     /\ InMap(Round(squads[i].x), Round(squads[i].y))
     /\ Terrain(mapKind, Round(squads[i].x), Round(squads[i].y)) # "mountain"


\* the number of units in the squads of the contestant
ArmyOf(W, ownerId) ==
  SumSeq(Listed([ i \in 1..Len(W.squads) |->
                    IF W.squads[i].ownerId = ownerId THEN Len(W.squads[i].units) ELSE 0 ]), 1)

\* the queues whose first order the training pass of the next tick of the
\* play completes: the building stands, is owned and connected, and the
\* order's time runs out
Completing(W) ==
  { qi \in 1..Len(W.trainingQueues) :
      /\ Len(W.trainingQueues[qi].queue) > 0
      /\ LET t == TileAt(W.tiles, W.trainingQueues[qi].key[1], W.trainingQueues[qi].key[2])
         IN  t.structureType # NoStructure /\ t.ownerId # NoOne /\ t.connected
      /\ W.trainingQueues[qi].queue[1].remainingTime - PlayDt <= 0 }

\* C36: in every playing state, the training pass of the tick that starts
\* there gives every contestant exactly as many units as it paid completed
\* orders for.
C36_UnitsGoToPayer ==
  (phase = "playing" /\ tickInterval) =>
     LET before == runBots(processCommands(World), << >>)
         after == updateTraining(before, PlayDt)
     IN  \A i \in 1..Len(players) :
            ArmyOf(after, players[i].id) - ArmyOf(before, players[i].id) =
              Cardinality({ qi \in Completing(before) :
                              before.trainingQueues[qi].queue[1].paidBy = players[i].id })


\* C37: in the step that enters the playing phase, every living contestant
\* ends up owning the tile of its capital, with a castle of full strength on
\* it.
C37_CapitalsOwned ==
  [][ (phase = "spawn_selection" /\ phase' = "playing") =>
         \A i \in 1..Len(players') :
            players'[i].alive =>
               LET t == TileAt(tiles', players'[i].capitalX, players'[i].capitalY)
               IN  /\ t.ownerId = players'[i].id
                   /\ t.structureType = "castle"
                   /\ t.structureHp = BUILDING_HP["castle"] * SCALE
    ]_vars


\* C38: once a tick has run, every contestant's territoryCount is the
\* number of tiles it owns (the tiles change in ticks only, so every such
\* state shows them as the last tick left them).
C38_CountIsOwned ==
  tick >= 1 =>
     \A i \in 1..Len(players) :
        players[i].territoryCount =
          Cardinality({ k \in DOMAIN tiles : tiles[k].ownerId = players[i].id })


\* C39: when a step eliminates a contestant, the training queues of the
\* buildings on the tiles it owned before the step hold no order after it.
C39_QueuesGoWithOwner ==
  [][ \A i \in 1..Len(players) :
        ( /\ eliminationCounter' > eliminationCounter
          /\ players[i].alive /\ ~players'[i].alive ) =>
           \A q \in 1..Len(trainingQueues') :
              LET t == TileAt(tiles, trainingQueues'[q].key[1], trainingQueues'[q].key[2])
              IN  (t.ownerId = players[i].id /\ t.structureType # NoStructure) =>
                     trainingQueues'[q].queue = << >>
    ]_vars


====
